---- MODULE Spec2Model ----
(***************************************************************************)
(* Model of src/app.py: the SEO analysis run of one page.                  *)
(*                                                                         *)
(* Strings are sequences of tokens (a token is an indivisible piece of     *)
(* text; " " is the whitespace token and ":" is always its own token), so  *)
(* strip / lower / startswith / split act on them as they do in Python.    *)
(* Element text is a sequence of runs [w |-> token, n |-> repetitions].    *)
(* A category score is kept exactly, in units of 1/ScoreUnit percent.      *)
(***************************************************************************)
EXTENDS Integers, Sequences, FiniteSets, TLC

\* ------------------------------------------------------------------ strings
None == <<"<None>">>

Truthy(s) == s # None /\ s # <<>>

RECURSIVE LStrip(_)
LStrip(s) == IF s # <<>> /\ Head(s) = " " THEN LStrip(Tail(s)) ELSE s

RECURSIVE RStrip(_)
RStrip(s) ==
    IF s # <<>> /\ s[Len(s)] = " " THEN RStrip(SubSeq(s, 1, Len(s) - 1)) ELSE s

Strip(s) == RStrip(LStrip(s))

LowerTok(t) ==
    CASE t = "Sitemap" -> "sitemap"
      [] t = "SITEMAP" -> "sitemap"
      [] t = "User-agent" -> "user-agent"
      [] t = "Disallow" -> "disallow"
      [] OTHER -> t

Lower(s) == [i \in 1..Len(s) |-> LowerTok(s[i])]

StartsWith(s, p) == Len(s) >= Len(p) /\ SubSeq(s, 1, Len(p)) = p

\* index of the first occurrence of token sep in s, 0 when there is none
RECURSIVE IndexFrom(_, _, _)
IndexFrom(s, sep, i) ==
    IF i > Len(s) THEN 0
    ELSE IF s[i] = sep THEN i ELSE IndexFrom(s, sep, i + 1)

\* s.split(sep, 1)[1]
AfterFirst(s, sep) == SubSeq(s, IndexFrom(s, sep, 1) + 1, Len(s))

\* ------------------------------------------------------------------ URLs
MkUrl(scheme, netloc, path) == <<scheme, ":", "//", netloc, path>>

urlparse(url) ==
    IF Len(url) >= 2 /\ url[2] = ":" /\ url[1] \notin {" ", "//"}
    THEN [scheme |-> url[1],
          netloc |-> IF Len(url) >= 4 /\ url[3] = "//" THEN url[4] ELSE "",
          path   |-> IF Len(url) >= 4 /\ url[3] = "//"
                     THEN SubSeq(url, 5, Len(url)) ELSE SubSeq(url, 3, Len(url))]
    ELSE [scheme |-> "", netloc |-> "", path |-> url]

is_valid_url(url) == urlparse(url).scheme # "" /\ urlparse(url).netloc # ""

\* variant: the wrong component of the parsed URL is returned
get_domain_scheme(url) == urlparse(url).scheme

get_domain(url) == urlparse(url).netloc

IsPathTok(t) == t \in {"/", "/about", "/page", "/robots.txt", "/sitemap.xml",
                       "/sitemap_index.xml", "/sm.xml", "/x", "/favicon.ico",
                       "/fr", "/canon"}

IsFragmentTok(t) == t \in {"#top", "#"}

\* urljoin(base, href): an href with a scheme stands for itself, an absolute
\* path replaces the base's path, a fragment is appended to the base
urljoin(base, href) ==
    IF href = <<>> THEN base
    ELSE IF urlparse(href).scheme # "" THEN href
    ELSE IF IsPathTok(href[1])
         THEN <<urlparse(base).scheme, ":", "//", urlparse(base).netloc>> \o href
    ELSE IF IsFragmentTok(href[1]) THEN base \o href
    ELSE <<urlparse(base).scheme, ":", "//", urlparse(base).netloc, "/">> \o href

\* ------------------------------------------------------------------ document
\* An element: tag name, the container it lies in ("head", "body", or the
\* nav / footer / aside region of the body), attributes as <<name, value>>
\* pairs, and its text.  A document (soup) is the sequence of its elements
\* in document order.
Node(tag, within, attrs, text) ==
    [tag |-> tag, within |-> within, attrs |-> attrs, text |-> text]

Run(w, n) == [w |-> w, n |-> n]

\* tag.get(a): the value of attribute a, None when the element has none
RECURSIVE Lookup(_, _)
Lookup(attrs, a) ==
    IF attrs = <<>> THEN None
    ELSE IF Head(attrs)[1] = a THEN Head(attrs)[2] ELSE Lookup(Tail(attrs), a)

Get(node, a) == Lookup(node.attrs, a)

HasAttr(node, a) == \E i \in 1..Len(node.attrs) : node.attrs[i][1] = a

\* tag.string / the text pieces of an element, as a token string
RECURSIVE TextStr(_)
TextStr(text) ==
    IF text = <<>> THEN <<>>
    ELSE IF Head(text).n = 0 THEN TextStr(Tail(text))
    ELSE <<Head(text).w>> \o TextStr(<<Run(Head(text).w, Head(text).n - 1)>> \o Tail(text))

\* tag.string: None for an element without a text child
TagString(node) == IF node.text = <<>> THEN None ELSE TextStr(node.text)

\* tag.get_text(strip=True)
GetTextStrip(node) == Strip(TextStr(node.text))

\* indices of the elements of soup that satisfy Test, in document order
FindAll(soup, Test(_)) == {i \in 1..Len(soup) : Test(soup[i])}

Min(S) == CHOOSE x \in S : \A y \in S : x <= y

\* soup.find(...): index of the first match, 0 (None) when there is none
Find(soup, Test(_)) ==
    IF FindAll(soup, Test) = {} THEN 0 ELSE Min(FindAll(soup, Test))

\* the elements at a set of indices, in document order
RECURSIVE Select(_, _, _)
Select(soup, I, i) ==
    IF i > Len(soup) THEN <<>>
    ELSE (IF i \in I THEN <<soup[i]>> ELSE <<>>) \o Select(soup, I, i + 1)

IsMetaNamed(node, name) == node.tag = "meta" /\ Get(node, "name") = <<name>>

\* a multi-valued rel attribute matches a value when one of its values does
RelHas(node, v) ==
    Get(node, "rel") # None /\ \E i \in 1..Len(Get(node, "rel")) : Get(node, "rel")[i] = v

\* ------------------------------------------------------------------ scores
\* scores are exact: a percentage is stored multiplied by ScoreUnit
ScoreUnit == 189

\* (points / max_points) * 100 if max_points > 0 else 0
Percentage(points, max_points) ==
    IF max_points > 0 THEN (points * 100 * ScoreUnit) \div max_points ELSE 0

\* ------------------------------------------------------------------ meta tags
OgPrefixed(t) == t \in {"og:title", "og:description", "og:image", "og:url", "og:type"}

TwitterPrefixed(t) ==
    t \in {"twitter:card", "twitter:title", "twitter:description", "twitter:image"}

\* sub in s, for tokens that contain the text sub
SubTok(t, sub) ==
    \/ t = sub
    \/ sub = "initial-scale=1" /\ t \in {"initial-scale=1.0", "initial-scale=10"}
    \/ sub = "icon" /\ t \in {"apple-touch-icon", "shortcut-icon"}

Contains(s, sub) == \E i \in 1..Len(s) : SubTok(s[i], sub)

RECURSIVE LastIndex(_, _, _)
LastIndex(s, sep, i) ==
    IF i = 0 THEN 0 ELSE IF s[i] = sep THEN i ELSE LastIndex(s, sep, i - 1)

\* s.split(sep)[-1]
AfterLast(s, sep) == SubSeq(s, LastIndex(s, sep, Len(s)) + 1, Len(s))

meta_data_init ==
    [k \in {"title", "description", "keywords", "robots", "canonical", "og:title",
            "og:description", "og:image", "og:url", "twitter:title",
            "twitter:description", "twitter:image", "twitter:card", "viewport",
            "author", "charset", "language", "favicon"} |-> None]
    @@ ("alternate" :> <<>>)

\* for tag in tags: if key and content: meta_data[key] = content.strip()
RECURSIVE StoreTags(_, _, _)
StoreTags(md, tags, keyattr) ==
    IF tags = <<>> THEN md
    ELSE LET key     == Get(Head(tags), keyattr)
             content == Get(Head(tags), "content")
         IN  StoreTags(IF Truthy(key) /\ Truthy(content)
                       THEN (key[1] :> Strip(content)) @@ md ELSE md,
                       Tail(tags), keyattr)

\* meta[name=...] with a non-empty content: the stripped content, else None
NamedContent(soup, name) ==
    LET tag == Find(soup, LAMBDA n : IsMetaNamed(n, name))
    IN  IF tag # 0 /\ Truthy(Get(soup[tag], "content"))
        THEN Strip(Get(soup[tag], "content")) ELSE None

\* variant: the partial credit is added to the full credit
MetaViewportPointsBoth(viewport) ==
    IF viewport = None THEN 0
    ELSE (IF Contains(viewport, "width=device-width") /\ Contains(viewport, "initial-scale=1")
          THEN 3 ELSE 0)
         + (IF Contains(viewport, "width=device-width") THEN 1 ELSE 0)

\* lines 160-165, on the stripped viewport content (None when there is none)
MetaViewportPoints(viewport) ==
    IF viewport = None THEN 0
    ELSE IF Contains(viewport, "width=device-width") /\ Contains(viewport, "initial-scale=1")
         THEN 3
    ELSE IF Contains(viewport, "width=device-width") THEN 1
    ELSE 0

MetaCharset(soup) ==
    LET charset_tag == Find(soup, LAMBDA n : n.tag = "meta" /\ HasAttr(n, "charset"))
        http_equiv  == Find(soup, LAMBDA n : n.tag = "meta"
                                             /\ Get(n, "http-equiv") = <<"Content-Type">>)
    IN  IF charset_tag # 0 /\ Truthy(Get(soup[charset_tag], "charset"))
        THEN [found |-> TRUE, value |-> Strip(Get(soup[charset_tag], "charset"))]
        ELSE IF http_equiv # 0 /\ Get(soup[http_equiv], "content") # None
                /\ Contains(Get(soup[http_equiv], "content"), "charset=")
        THEN [found |-> TRUE,
              value |-> Strip(AfterLast(Get(soup[http_equiv], "content"), "charset="))]
        ELSE [found |-> FALSE, value |-> None]

MetaFavicon(soup, url) ==
    LET IsIcon(n) == n.tag = "link" /\ Get(n, "rel") # None
                     /\ Contains(Lower(Get(n, "rel")), "icon")
        favicons  == FindAll(soup, IsIcon)
        icon      == Find(soup, LAMBDA n : n.tag = "link" /\ RelHas(n, "icon"))
        shortcut  == Find(soup, LAMBDA n : n.tag = "link"
                                           /\ Get(n, "rel") = <<"shortcut", "icon">>)
        preferred == IF icon # 0 THEN icon ELSE shortcut
    IN  IF favicons = {} THEN None
        ELSE IF preferred # 0 /\ Truthy(Get(soup[preferred], "href"))
             THEN urljoin(url, Get(soup[preferred], "href"))
        ELSE IF Truthy(Get(soup[Min(favicons)], "href"))
             THEN urljoin(url, Get(soup[Min(favicons)], "href"))
        ELSE None

MetaAlternates(soup, url) ==
    LET tags == Select(soup, FindAll(soup, LAMBDA n : n.tag = "link" /\ RelHas(n, "alternate")
                                         /\ HasAttr(n, "hreflang") /\ HasAttr(n, "href")), 1)
    IN  [i \in 1..Len(tags) |-> [hreflang |-> Get(tags[i], "hreflang"),
                                 href     |-> urljoin(url, Get(tags[i], "href"))]]

PointsIf(cond, points) == IF cond THEN points ELSE 0

meta_max_points == 28

\* the points analyze_meta_tags awards for the title / the description
TitlePoints(soup) ==
    LET title_tag == Find(soup, LAMBDA n : n.tag = "title")
    IN  PointsIf(title_tag # 0 /\ Truthy(TagString(soup[title_tag])), 5)

DescriptionPoints(soup) ==
    LET desc_tag == Find(soup, LAMBDA n : IsMetaNamed(n, "description"))
    IN  PointsIf(desc_tag # 0 /\ Truthy(Get(soup[desc_tag], "content")), 4)

analyze_meta_tags(soup, url) ==
    LET title_tag == Find(soup, LAMBDA n : n.tag = "title")
        title     == IF TitlePoints(soup) > 0
                     THEN Strip(TagString(soup[title_tag])) ELSE None
        canon_tag == Find(soup, LAMBDA n : n.tag = "link" /\ RelHas(n, "canonical"))
        canonical == IF canon_tag # 0 /\ Truthy(Get(soup[canon_tag], "href"))
                     THEN urljoin(url, Get(soup[canon_tag], "href")) ELSE None
        og_tags   == Select(soup, FindAll(soup, LAMBDA n : n.tag = "meta"
                        /\ Truthy(Get(n, "property")) /\ OgPrefixed(Get(n, "property")[1])), 1)
        tw_tags   == Select(soup, FindAll(soup, LAMBDA n : n.tag = "meta"
                        /\ Truthy(Get(n, "name")) /\ TwitterPrefixed(Get(n, "name")[1])), 1)
        html_tag  == Find(soup, LAMBDA n : n.tag = "html")
        language  == IF html_tag # 0 /\ Truthy(Get(soup[html_tag], "lang"))
                     THEN Strip(Get(soup[html_tag], "lang")) ELSE None
        charset   == MetaCharset(soup)
        md1 == [meta_data_init EXCEPT
                  !["title"] = title,
                  !["description"] = NamedContent(soup, "description"),
                  !["keywords"] = NamedContent(soup, "keywords"),
                  !["robots"] = NamedContent(soup, "robots"),
                  !["canonical"] = canonical]
        md2 == StoreTags(md1, og_tags, "property")
        md3 == StoreTags(md2, tw_tags, "name")
        md  == [md3 EXCEPT
                  !["viewport"] = NamedContent(soup, "viewport"),
                  !["author"] = NamedContent(soup, "author"),
                  !["charset"] = charset.value,
                  !["language"] = language,
                  !["favicon"] = MetaFavicon(soup, url),
                  !["alternate"] = MetaAlternates(soup, url)]
        points == TitlePoints(soup)
                  + DescriptionPoints(soup)
                  + PointsIf(md["robots"] # None, 1)
                  + PointsIf(canonical # None, 3)
                  + PointsIf(Truthy(md2["og:title"]) /\ Truthy(md2["og:description"])
                             /\ Truthy(md2["og:image"]), 3)
                  + PointsIf(Truthy(md3["twitter:card"]) /\ Truthy(md3["twitter:title"])
                             /\ Truthy(md3["twitter:description"]), 2)
                  + MetaViewportPoints(md["viewport"])
                  + PointsIf(md["author"] # None, 1)
                  + PointsIf(charset.found, 1)
                  + PointsIf(language # None, 1)
                  + PointsIf(Truthy(md["favicon"]), 1)
                  + PointsIf(md["alternate"] # <<>>, 3)
    IN  [meta_data |-> md, points |-> points,
         meta_score |-> Percentage(points, meta_max_points)]

\* ------------------------------------------------------------------ content
MIN_CONTENT_LENGTH_WORDS == 300
GOOD_READABILITY_THRESHOLD == 60
MAX_KEYWORDS_TO_SHOW == 10

HeadingTags == {"h1", "h2", "h3", "h4", "h5", "h6"}

HeadingLevel(tag) ==
    CASE tag = "h1" -> 1 [] tag = "h2" -> 2 [] tag = "h3" -> 3
      [] tag = "h4" -> 4 [] tag = "h5" -> 5 [] tag = "h6" -> 6

\* variant: the flag is set anew at every heading, so a later heading that
\* follows its predecessor properly makes it valid again
RECURSIVE ScanHeadingsForgetful(_, _)
ScanHeadingsForgetful(tags, st) ==
    IF tags = <<>> THEN st
    ELSE LET h     == Head(tags)
             level == HeadingLevel(h.tag)
             text  == GetTextStrip(h)
             ok    == ~(level > st.last_level + 1 /\ st.last_level # 0)
         IN  IF text = <<>> THEN ScanHeadingsForgetful(Tail(tags), st)
             ELSE ScanHeadingsForgetful(Tail(tags),
                    [headings   |-> [st.headings EXCEPT ![h.tag] = Append(@, text)],
                     has_h1     |-> st.has_h1 \/ h.tag = "h1",
                     ok         |-> ok,
                     last_level |-> level,
                     trace      |-> Append(st.trace, ok)])

\* the loop over heading_tags: st = [headings, has_h1, ok, last_level], and in
\* trace the value of heading_hierarchy_ok after each heading that is not skipped
RECURSIVE ScanHeadings(_, _)
ScanHeadings(tags, st) ==
    IF tags = <<>> THEN st
    ELSE LET h     == Head(tags)
             level == HeadingLevel(h.tag)
             text  == GetTextStrip(h)
         IN  IF text = <<>> THEN ScanHeadings(Tail(tags), st)
             ELSE ScanHeadings(Tail(tags),
                    [headings   |-> [st.headings EXCEPT ![h.tag] = Append(@, text)],
                     has_h1     |-> st.has_h1 \/ h.tag = "h1",
                     ok         |-> st.ok /\ ~(level > st.last_level + 1 /\ st.last_level # 0),
                     last_level |-> level,
                     trace      |-> Append(st.trace,
                                      st.ok /\ ~(level > st.last_level + 1 /\ st.last_level # 0))])

HeadingScan(soup) ==
    ScanHeadings(Select(soup, FindAll(soup, LAMBDA n : n.tag \in HeadingTags), 1),
                 [headings |-> [t \in HeadingTags |-> <<>>], has_h1 |-> FALSE,
                  ok |-> TRUE, last_level |-> 0, trace |-> <<>>])

\* variant: several H1 are not penalised
HeadingPointsNoPenalty(has_h1, h1_count, hierarchy_ok) ==
    LET ok == hierarchy_ok /\ ~(has_h1 /\ h1_count > 1)
    IN  (IF has_h1 THEN 5 ELSE 0) + (IF ok /\ has_h1 THEN 3 ELSE IF has_h1 THEN 1 ELSE 0)

HeadingPoints(has_h1, h1_count, hierarchy_ok) ==
    LET base == IF has_h1 THEN (IF h1_count > 1 THEN 5 - 2 ELSE 5) ELSE 0
        ok   == hierarchy_ok /\ ~(has_h1 /\ h1_count > 1)
    IN  base + (IF ok /\ has_h1 THEN 3 ELSE IF has_h1 THEN 1 ELSE 0)

RemovedTags == {"script", "style", "nav", "footer", "aside"}

InBody(n) == n.within \in {"body", "nav", "footer", "aside"}

\* for element in body([...]): element.decompose()  -- the tree that is left
Decompose(soup) ==
    IF Find(soup, LAMBDA n : n.tag = "body") = 0 THEN soup
    ELSE Select(soup, FindAll(soup, LAMBDA n :
                    ~(n.within \in {"nav", "footer", "aside"}
                      \/ (n.within = "body" /\ n.tag \in RemovedTags))), 1)

\* body.get_text(separator=' ', strip=True): the runs of non-blank text
RECURSIVE NonBlank(_)
NonBlank(text) ==
    IF text = <<>> THEN <<>>
    ELSE (IF Head(text).w = " " \/ Head(text).n = 0 THEN <<>> ELSE <<Head(text)>>)
         \o NonBlank(Tail(text))

RECURSIVE BodyText(_)
BodyText(nodes) ==
    IF nodes = <<>> THEN <<>>
    ELSE (IF InBody(Head(nodes)) THEN NonBlank(Head(nodes).text) ELSE <<>>)
         \o BodyText(Tail(nodes))

\* len(raw_text.split())
RECURSIVE WordCount(_)
WordCount(text) == IF text = <<>> THEN 0 ELSE Head(text).n + WordCount(Tail(text))

\* clean_text on one word: lowercased, characters other than word characters
\* and hyphens removed ("" when nothing is left)
clean_text(w) ==
    CASE w = "SEO" -> "seo"
      [] w = "Tips," -> "tips"
      [] w = "The" -> "the"
      [] w = "!!!" -> ""
      [] w = "AI" -> "ai"
      [] w = "About" -> "about"
      [] w = "Partner" -> "partner"
      [] w = "More" -> "more"
      [] w = "Top" -> "top"
      [] OTHER -> w

stop_words ==
    {"a", "an", "the", "and", "or", "but", "is", "in", "it", "of", "to", "on", "for",
     "with", "as", "by", "at", "this", "that", "i", "you", "he", "she", "we", "they",
     "be", "are", "was", "were", "has", "have", "had", "do", "does", "did", "will",
     "shall", "should", "can", "could", "may", "might", "must", "not", "no", "so",
     "if", "me", "my", "your", "our", "its", "-", ""}

\* len(word) of a cleaned word
WordLen(w) ==
    CASE w \in {"", "<None>"} -> 0
      [] w \in {"a", "i", "-"} -> 1
      [] w \in {"ai", "an", "is", "in", "it", "of", "to", "on", "as", "by", "at", "he",
                "we", "be", "do", "no", "so", "if", "me", "my", "or", "go"} -> 2
      [] OTHER -> 3

\* meaningful_words, as runs of cleaned words
RECURSIVE MeaningfulWords(_)
MeaningfulWords(text) ==
    IF text = <<>> THEN <<>>
    ELSE LET word == clean_text(Head(text).w)
         IN  (IF word # "" /\ word \notin stop_words /\ WordLen(word) > 2
              THEN <<Run(word, Head(text).n)>> ELSE <<>>)
             \o MeaningfulWords(Tail(text))

WordLengthPoints(word_count) ==
    IF word_count >= MIN_CONTENT_LENGTH_WORDS THEN 5
    ELSE IF word_count > 0 THEN 2 ELSE 0

\* flesch = [ok |-> textstat returned, score |-> its result]
ReadabilityPoints(word_count, flesch) ==
    IF word_count > 50 /\ flesch.ok
    THEN (IF flesch.score >= GOOD_READABILITY_THRESHOLD THEN 5
          ELSE IF flesch.score >= 30 THEN 2 ELSE 0)
    ELSE 0

readability_desc(word_count, flesch) ==
    IF word_count > 50
    THEN (IF ~flesch.ok THEN "Calculation Error"
          ELSE IF flesch.score >= GOOD_READABILITY_THRESHOLD THEN "Good"
          ELSE IF flesch.score >= 30 THEN "Okay" ELSE "Difficult")
    ELSE "Not enough content to calculate"

\* the alt-text status of the images, in document order
ImageAlts(images) ==
    [i \in 1..Len(images) |->
        LET alt_text == IF Get(images[i], "alt") = None THEN <<>>
                        ELSE Strip(Get(images[i], "alt"))
        IN  [src    |-> IF Get(images[i], "src") = None THEN <<"No Source">>
                        ELSE Get(images[i], "src"),
             alt    |-> IF alt_text # <<>> THEN alt_text ELSE None,
             status |-> IF alt_text # <<>> THEN "present" ELSE "missing"]]

ImageAltPoints(total, with_alt) ==
    IF total > 0
    THEN (IF with_alt * 100 >= 90 * total THEN 4
          ELSE IF with_alt * 100 >= 50 * total THEN 2 ELSE 0)
    ELSE 4

content_max_points == 30

\* Counter(meaningful_words): the distinct words in first-occurrence order
RECURSIVE DistinctWords(_, _)
DistinctWords(words, seen) ==
    IF words = <<>> THEN <<>>
    ELSE IF Head(words).w \in seen THEN DistinctWords(Tail(words), seen)
    ELSE <<Head(words).w>> \o DistinctWords(Tail(words), seen \cup {Head(words).w})

RECURSIVE CountOf(_, _)
CountOf(words, w) ==
    IF words = <<>> THEN 0
    ELSE (IF Head(words).w = w THEN Head(words).n ELSE 0) + CountOf(Tail(words), w)

\* a ranking that lets the later of two equally frequent words go first
RECURSIVE MostCommonLatestFirst(_, _, _)
MostCommonLatestFirst(words, keys, k) ==
    IF k = 0 \/ keys = <<>> THEN <<>>
    ELSE LET best == CHOOSE i \in 1..Len(keys) :
                        \A j \in 1..Len(keys) :
                            \/ CountOf(words, keys[j]) < CountOf(words, keys[i])
                            \/ (CountOf(words, keys[j]) = CountOf(words, keys[i]) /\ j <= i)
         IN  <<keys[best]>>
             \o MostCommonLatestFirst(words,
                    SubSeq(keys, 1, best - 1) \o SubSeq(keys, best + 1, Len(keys)),
                    k - 1)

\* most_common(k): by count descending, ties in first-occurrence order
RECURSIVE MostCommon(_, _, _)
MostCommon(words, keys, k) ==
    IF k = 0 \/ keys = <<>> THEN <<>>
    ELSE LET best == Min({i \in 1..Len(keys) :
                            \A j \in 1..Len(keys) :
                                CountOf(words, keys[j]) <= CountOf(words, keys[i])})
         IN  <<keys[best]>>
             \o MostCommon(words,
                           SubSeq(keys, 1, best - 1) \o SubSeq(keys, best + 1, Len(keys)),
                           k - 1)

\* 2^s mod m
RECURSIVE Pow2Mod(_, _)
Pow2Mod(s, m) == IF s = 0 THEN 1 % m ELSE (2 * Pow2Mod(s - 1, m)) % m

\* the least k >= from with c * 2^k >= n
RECURSIVE BinExp(_, _, _)
BinExp(c, n, from) == IF c * 2^from >= n THEN from ELSE BinExp(c, n, from + 1)

\* floor(c * 2^s / n) mod m
FloorMod(c, n, s, m) == ((c * Pow2Mod(s, m * n)) % (m * n)) \div n

\* count / total for count < total, a Python float (binary64, round to nearest,
\* ties to even): the mantissa Q of 53 bits at scale 2^-s, s = 52 + k, is
\* (count * 2^s - rem) / total
Quotient(count, total) ==
    LET k  == BinExp(count, total, 0)
        s  == 52 + k
        r  == (count * Pow2Mod(s, total)) % total
        up == IF 2 * r > total \/ (2 * r = total /\ FloorMod(count, total, s, 2) = 1)
              THEN 1 ELSE 0
    IN  [k |-> k, s |-> s, up |-> up, rem |-> r - up * total]

\* 100 * count >= total * 2^j
AtLeastPow2(count, total, j) ==
    IF j >= 0 THEN 100 * count >= total * 2^j ELSE 100 * count * 2^(0 - j) >= total

\* the greatest j' >= j with 100 * count >= total * 2^j'
RECURSIVE Log2Floor(_, _, _)
Log2Floor(count, total, j) ==
    IF AtLeastPow2(count, total, j + 1) THEN Log2Floor(count, total, j + 1) ELSE j

\* the rounding of rho, the low t bits of a product, to the bit above them
RoundUp(rho, t, odd) == IF 2 * rho > 2^t \/ (2 * rho = 2^t /\ odd) THEN 1 ELSE 0

\* density = (count / total) * 100, a Python float: its exact value is
\* (density_num + density_err / 2^(52 + density_exp)) / density_den, where
\* density_num / density_den = 100 * count / total is the quotient of the
\* reals and density_err is what the two roundings, of the division and of
\* the product, add to it
Density(count, total) ==
    IF count = total
    THEN [density_num |-> 100 * count, density_den |-> total,
          density_err |-> 0, density_exp |-> 0]
    ELSE LET q    == Quotient(count, total)
             j0   == Log2Floor(count, total, 0 - BinExp(100 * count, total, 0))
             \* 100 * Q has j + s + 1 bits, of which the low t are rounded away
             j    == IF q.rem > 0 /\ (IF j0 >= 0 THEN 100 * count = total * 2^j0
                                          ELSE 100 * count * 2^(0 - j0) = total)
                     THEN j0 - 1 ELSE j0
             t    == j + q.k
             Qlow(m) == (FloorMod(count, total, q.s, m) + q.up) % m
             rho  == (100 * Qlow(2^t)) % 2^t
             odd  == (100 * Qlow(2^(t + 1))) % 2^(t + 1) >= 2^t
         IN  [density_num |-> 100 * count, density_den |-> total,
              density_err |-> (0 - 100) * q.rem
                              + total * (RoundUp(rho, t, odd) * 2^t - rho),
              density_exp |-> q.k]

\* (word, count, density) for the most common words
TopKeywords(meaningful) ==
    LET top   == MostCommon(meaningful, DistinctWords(meaningful, {}), MAX_KEYWORDS_TO_SHOW)
        total == WordCount(meaningful)
    IN  [i \in 1..Len(top) |->
            [word |-> top[i], count |-> CountOf(meaningful, top[i])]
            @@ (IF total > 0 THEN Density(CountOf(meaningful, top[i]), total)
                ELSE [density_num |-> 0, density_den |-> 1,
                      density_err |-> 0, density_exp |-> 0])]

analyze_on_page_content(soup, flesch) ==
    LET scan       == HeadingScan(soup)
        h1_count   == Len(scan.headings["h1"])
        has_body   == Find(soup, LAMBDA n : n.tag = "body") # 0
        after      == Decompose(soup)
        text       == IF has_body THEN BodyText(after) ELSE <<>>
        word_count == WordCount(text)
        meaningful == IF word_count > 0 THEN MeaningfulWords(text) ELSE <<>>
        keywords   == IF meaningful # <<>> THEN TopKeywords(meaningful) ELSE <<>>
        images     == Select(after, FindAll(after, LAMBDA n : n.tag = "img"), 1)
        alts       == ImageAlts(images)
        with_alt   == Cardinality({i \in 1..Len(alts) : alts[i].status = "present"})
        points     == HeadingPoints(scan.has_h1, h1_count, scan.ok)
                      + WordLengthPoints(word_count)
                      + ReadabilityPoints(word_count, flesch)
                      + PointsIf(keywords # <<>>, 5)
                      + ImageAltPoints(Len(images), with_alt)
    IN  [content_data |->
            [headings |-> scan.headings,
             word_count |-> word_count,
             readability_score |-> IF word_count > 50 /\ flesch.ok THEN flesch.score ELSE -1000,
             readability_desc |-> readability_desc(word_count, flesch),
             top_keywords |-> keywords,
             image_alt_analysis |-> [total |-> Len(images), with_alt |-> with_alt,
                                     missing_alt |-> Len(images) - with_alt,
                                     alt_tags |-> alts],
             text_content |-> text],
         points |-> points,
         content_score |-> Percentage(points, content_max_points),
         scoring |-> [has_h1 |-> scan.has_h1,
                      hierarchy_trace |-> scan.trace,
                      heading_hierarchy_ok |-> scan.ok /\ ~(scan.has_h1 /\ h1_count > 1),
                      heading_points |-> HeadingPoints(scan.has_h1, h1_count, scan.ok),
                      image_points |-> ImageAltPoints(Len(images), with_alt)],
         soup |-> after]

\* ------------------------------------------------------------------ links
EmptyAnchor == <<"[Empty Anchor]">>

links_max_points == 15

\* the loop over links: ld = link_data
RECURSIVE ScanLinks(_, _, _)
ScanLinks(links, base_url, ld) ==
    IF links = <<>> THEN ld
    ELSE LET link        == Head(links)
             anchor_text == GetTextStrip(link)
             full_url    == urljoin(base_url, Get(link, "href"))
             key         == IF anchor_text # <<>> THEN anchor_text ELSE EmptyAnchor
             anchors     == IF \E i \in 1..Len(ld.anchor_texts) : ld.anchor_texts[i].text = key
                            THEN [i \in 1..Len(ld.anchor_texts) |->
                                    IF ld.anchor_texts[i].text = key
                                    THEN [text |-> key, count |-> ld.anchor_texts[i].count + 1]
                                    ELSE ld.anchor_texts[i]]
                            ELSE Append(ld.anchor_texts, [text |-> key, count |-> 1])
             scheme      == urlparse(full_url).scheme
             type        == IF scheme = "" \/ scheme \notin {"http", "https"} THEN "other"
                            ELSE IF get_domain(full_url) = get_domain(base_url) THEN "internal"
                            ELSE "external"
             info        == [href |-> full_url, text |-> anchor_text, type |-> type]
         IN  ScanLinks(Tail(links), base_url,
                [internal       |-> IF type = "internal" THEN Append(ld.internal, full_url)
                                    ELSE ld.internal,
                 external       |-> IF type = "external" THEN Append(ld.external, full_url)
                                    ELSE ld.external,
                 internal_count |-> ld.internal_count + (IF type = "internal" THEN 1 ELSE 0),
                 external_count |-> ld.external_count + (IF type = "external" THEN 1 ELSE 0),
                 anchor_texts   |-> anchors,
                 links_all      |-> Append(ld.links_all, info)])

AnchorCount(anchor_texts, key) ==
    IF \E i \in 1..Len(anchor_texts) : anchor_texts[i].text = key
    THEN anchor_texts[CHOOSE i \in 1..Len(anchor_texts) : anchor_texts[i].text = key].count
    ELSE 0

LinkPoints(ld) ==
    LET total_links == ld.internal_count + ld.external_count
    IN  IF total_links > 0
        THEN 5
             + PointsIf(ld.internal_count > 0 /\ ld.external_count > 0 /\ total_links > 5, 5)
             + (IF Len(ld.anchor_texts) > 3
                   /\ AnchorCount(ld.anchor_texts, EmptyAnchor) * 2 < total_links
                THEN 5
                ELSE IF Len(ld.anchor_texts) > 1 THEN 2 ELSE 0)
        ELSE 0

analyze_links(soup, base_url) ==
    LET links == Select(soup, FindAll(soup, LAMBDA n : n.tag = "a" /\ HasAttr(n, "href")), 1)
        ld    == ScanLinks(links, base_url,
                    [internal |-> <<>>, external |-> <<>>, internal_count |-> 0,
                     external_count |-> 0, anchor_texts |-> <<>>, links_all |-> <<>>])
        points == LinkPoints(ld)
    IN  [link_data |-> ld, points |-> points,
         link_score |-> Percentage(points, links_max_points)]

\* ------------------------------------------------------------------ technical
\* load times are in milliseconds
GOOD_LOAD_TIME_THRESHOLD == 2000
OK_LOAD_TIME_THRESHOLD == 4000
NoLoadTime == -1

tech_max_points == 27

\* a network reply: an HTTP response, or a requests.exceptions.RequestException
Response(status, text) == [exc |-> FALSE, status |-> status, text |-> text]
RequestException == [exc |-> TRUE, status |-> 0, text |-> <<>>]

\* an entry of the request log: what was asked, for which check, and the
\* status that came back (0 when the request raised)
Request(method, url, target, reply) ==
    [method |-> method, url |-> url, target |-> target,
     result |-> IF reply.exc THEN 0 ELSE reply.status]

ErrorStatus(code) ==
    CASE code = 403 -> "Error (Status: 403)"
      [] code = 405 -> "Error (Status: 405)"
      [] code = 500 -> "Error (Status: 500)"
      [] code = 503 -> "Error (Status: 503)"
      [] OTHER -> "Error (Status: other)"

IsSitemapLine(line) == StartsWith(Lower(Strip(line)), <<"sitemap", ":">>)

\* variant: the scan does not stop at the first directive, the last one wins
LastSitemapLine(lines) ==
    IF \E i \in 1..Len(lines) : IsSitemapLine(lines[i])
    THEN CHOOSE i \in 1..Len(lines) :
            IsSitemapLine(lines[i]) /\ \A j \in (i + 1)..Len(lines) : ~IsSitemapLine(lines[j])
    ELSE 0

\* the first robots.txt line that starts with "sitemap:", 0 when none does
FirstSitemapLine(lines) ==
    IF \E i \in 1..Len(lines) : IsSitemapLine(lines[i])
    THEN Min({i \in 1..Len(lines) : IsSitemapLine(lines[i])}) ELSE 0

\* line.strip().split(':', 1)[1].strip()
DirectiveValue(line) == Strip(AfterFirst(Strip(line), ":"))

tech_data_init(load_time) ==
    [robots_txt |-> [status |-> "Not Checked", content |-> None, url |-> None],
     sitemap_xml |-> [status |-> "Not Checked", url |-> None, found_in_robots |-> FALSE],
     load_time |-> load_time, load_time_status |-> "info",
     mobile_friendly |-> "Not Checked",
     https_status |-> "info",
     schema_markup |-> [present |-> FALSE, types |-> <<>>]]

HttpsPoints(url) == PointsIf(urlparse(url).scheme = "https", 3)

\* lines 431-476: the robots.txt reply is handled and the sitemap candidates
\* are listed; td = tech_data so far.  raised: an exception escaped the try
RobotsCheck(url, td, reply) ==
    LET base       == MkUrl(urlparse(url).scheme, urlparse(url).netloc, "/")
        robots_url == urljoin(base, <<"/robots.txt">>)
        found      == ~reply.exc /\ reply.status = 200
        line       == IF found THEN FirstSitemapLine(reply.text) ELSE 0
        directive  == IF line # 0 THEN DirectiveValue(reply.text[line]) ELSE None
        status     == IF reply.exc THEN "Error fetching: RequestException"
                      ELSE IF reply.status = 200 THEN "Found"
                      ELSE IF reply.status = 404 THEN "Not Found"
                      ELSE ErrorStatus(reply.status)
    IN  [tech_data |->
            [td EXCEPT !.https_status = IF urlparse(url).scheme = "https" THEN "good" ELSE "bad",
                       !.robots_txt = [status |-> status,
                                       content |-> IF found THEN reply.text ELSE None,
                                       url |-> robots_url],
                       !.sitemap_xml.found_in_robots = (line # 0),
                       !.sitemap_xml.url = directive],
         points |-> HttpsPoints(url) + PointsIf(found, 4),
         raised |-> FALSE,
         requests |-> <<Request("GET", robots_url, "robots", reply)>>,
         sitemap_directive_found |-> directive,
         sitemap_urls_to_check |->
            IF Truthy(directive) THEN <<directive>>
            ELSE <<urljoin(base, <<"/sitemap.xml">>), urljoin(base, <<"/sitemap_index.xml">>)>>]

\* variant: a request that raised is not caught
SitemapProbeUncaught(sitemap_url, head, get) ==
    LET head_req == Request("HEAD", sitemap_url, "sitemap", head)
        get_req  == Request("GET", sitemap_url, "sitemap", get)
    IN  IF head.exc
        THEN [status |-> "Not Checked", found |-> FALSE, raised |-> TRUE,
              requests |-> <<head_req>>]
        ELSE IF head.status = 200
        THEN [status |-> "Found", found |-> TRUE, raised |-> FALSE,
              requests |-> <<head_req>>]
        ELSE IF head.status = 404
        THEN [status |-> "Not Found", found |-> FALSE, raised |-> FALSE,
              requests |-> <<head_req>>]
        ELSE IF get.exc
        THEN [status |-> "Not Checked", found |-> FALSE, raised |-> TRUE,
              requests |-> <<head_req, get_req>>]
        ELSE [status |-> IF get.status = 200 THEN "Found"
                         ELSE IF get.status = 404 THEN "Not Found"
                         ELSE ErrorStatus(get.status),
              found |-> get.status = 200, raised |-> FALSE,
              requests |-> <<head_req, get_req>>]

\* variant: a HEAD that raised is tried a second time
SitemapProbeRetry(sitemap_url, head, get) ==
    LET head_req == Request("HEAD", sitemap_url, "sitemap", head)
        get_req  == Request("GET", sitemap_url, "sitemap", get)
    IN  IF head.exc
        THEN [status |-> "Error Fetching", found |-> FALSE, raised |-> FALSE,
              requests |-> <<head_req, head_req>>]
        ELSE IF head.status \in {200, 404}
        THEN [status |-> IF head.status = 200 THEN "Found" ELSE "Not Found",
              found |-> head.status = 200, raised |-> FALSE, requests |-> <<head_req>>]
        ELSE [status |-> IF get.exc THEN "Error Fetching"
                         ELSE IF get.status = 200 THEN "Found"
                         ELSE IF get.status = 404 THEN "Not Found"
                         ELSE ErrorStatus(get.status),
              found |-> ~get.exc /\ get.status = 200, raised |-> FALSE,
              requests |-> <<head_req, get_req>>]

\* variant: the GET fallback is also taken after a HEAD that returned 404
SitemapProbeGetAfter404(sitemap_url, head, get) ==
    LET head_req == Request("HEAD", sitemap_url, "sitemap", head)
        get_req  == Request("GET", sitemap_url, "sitemap", get)
    IN  IF head.exc
        THEN [status |-> "Error Fetching", found |-> FALSE, raised |-> FALSE,
              requests |-> <<head_req>>]
        ELSE IF head.status = 200
        THEN [status |-> "Found", found |-> TRUE, raised |-> FALSE,
              requests |-> <<head_req>>]
        ELSE [status |-> IF get.exc THEN "Error Fetching"
                         ELSE IF get.status = 200 THEN "Found"
                         ELSE IF get.status = 404 THEN "Not Found"
                         ELSE ErrorStatus(get.status),
              found |-> ~get.exc /\ get.status = 200, raised |-> FALSE,
              requests |-> <<head_req, get_req>>]

\* one iteration of the loop over sitemap_urls_to_check (lines 479-507):
\* the status it leaves, whether the sitemap was found, the requests it
\* made, and whether an exception left the loop uncaught
SitemapProbe(sitemap_url, head, get) ==
    LET head_req == Request("HEAD", sitemap_url, "sitemap", head)
        get_req  == Request("GET", sitemap_url, "sitemap", get)
    IN  IF head.exc
        THEN [status |-> "Error Fetching", found |-> FALSE, raised |-> FALSE,
              requests |-> <<head_req>>]
        ELSE IF head.status = 200
        THEN [status |-> "Found", found |-> TRUE, raised |-> FALSE,
              requests |-> <<head_req>>]
        ELSE IF head.status = 404
        THEN [status |-> "Not Found", found |-> FALSE, raised |-> FALSE,
              requests |-> <<head_req>>]
        ELSE IF get.exc
        THEN [status |-> "Error Fetching", found |-> FALSE, raised |-> FALSE,
              requests |-> <<head_req, get_req>>]
        ELSE IF get.status = 200
        THEN [status |-> "Found", found |-> TRUE, raised |-> FALSE,
              requests |-> <<head_req, get_req>>]
        ELSE IF get.status = 404
        THEN [status |-> "Not Found", found |-> FALSE, raised |-> FALSE,
              requests |-> <<head_req, get_req>>]
        ELSE [status |-> ErrorStatus(get.status), found |-> FALSE, raised |-> FALSE,
              requests |-> <<head_req, get_req>>]

\* lines 509-511: the status of the sitemap check once the loop is over
SitemapFinalStatus(status, sitemap_found) ==
    IF ~sitemap_found THEN "Not Found (Common Locations)" ELSE status

\* a scoring that gives nothing for a load time between the two thresholds
LoadTimePointsGoodOnly(load_time) ==
    IF load_time # NoLoadTime /\ load_time <= GOOD_LOAD_TIME_THRESHOLD THEN 7 ELSE 0

LoadTimePoints(load_time) ==
    IF load_time # NoLoadTime
    THEN (IF load_time <= GOOD_LOAD_TIME_THRESHOLD THEN 7
          ELSE IF load_time <= OK_LOAD_TIME_THRESHOLD THEN 3 ELSE 0)
    ELSE 0

load_time_status(load_time) ==
    IF load_time # NoLoadTime
    THEN (IF load_time <= GOOD_LOAD_TIME_THRESHOLD THEN "good"
          ELSE IF load_time <= OK_LOAD_TIME_THRESHOLD THEN "warning" ELSE "bad")
    ELSE "error"

\* variant: the full credit is given for the width alone
TechViewportPointsWidthOnly(viewport_content) ==
    IF Truthy(viewport_content)
    THEN (IF Contains(viewport_content, "width=device-width") THEN 5 ELSE 0)
    ELSE 0

\* lines 529-546
TechViewportPoints(viewport_content) ==
    IF Truthy(viewport_content)
    THEN (IF Contains(viewport_content, "width=device-width")
             /\ Contains(viewport_content, "initial-scale=1") THEN 5
          ELSE IF Contains(viewport_content, "width=device-width") THEN 2 ELSE 0)
    ELSE 0

mobile_friendly(viewport) ==
    IF Truthy(viewport)
    THEN (IF Contains(viewport, "width=device-width") /\ Contains(viewport, "initial-scale=1")
          THEN "good"
          ELSE IF Contains(viewport, "width=device-width") THEN "warning" ELSE "bad")
    ELSE "bad"

\* json.loads(tag.string): the @type values of the parsed content, or the
\* error the block is recorded with
json_types(string) ==
    IF string = None THEN <<"Error Processing">>
    ELSE CASE string = <<"{@type:Article}">> -> <<"Article">>
           [] string = <<"{name:x}">> -> <<>>
           [] string = <<"[{@type:Person},{@type:Organization}]">> -> <<"Person", "Organization">>
           [] OTHER -> <<"Error Parsing">>

RECURSIVE SchemaTypes(_)
SchemaTypes(tags) ==
    IF tags = <<>> THEN <<>>
    ELSE json_types(TagString(Head(tags))) \o SchemaTypes(Tail(tags))

\* variant: a block counts as present only when its content parses
schema_markup_parsed_only(soup) ==
    LET schema_tags == Select(soup, FindAll(soup, LAMBDA n :
                          n.tag = "script" /\ Get(n, "type") = <<"application/ld+json">>), 1)
    IN  [present |-> \E i \in 1..Len(schema_tags) :
                        json_types(TagString(schema_tags[i]))
                            \notin {<<"Error Parsing">>, <<"Error Processing">>},
         types |-> SchemaTypes(schema_tags)]

schema_markup(soup) ==
    LET schema_tags == Select(soup, FindAll(soup, LAMBDA n :
                          n.tag = "script" /\ Get(n, "type") = <<"application/ld+json">>), 1)
    IN  [present |-> schema_tags # <<>>, types |-> SchemaTypes(schema_tags)]

\* lines 513-582: load time, viewport and structured data
TechRest(soup, load_time, meta_data) ==
    [points |-> LoadTimePoints(load_time)
                + TechViewportPoints(meta_data["viewport"])
                + PointsIf(schema_markup(soup).present, 3),
     load_time_status |-> load_time_status(load_time),
     mobile_friendly |-> mobile_friendly(meta_data["viewport"]),
     schema_markup |-> schema_markup(soup)]

\* ------------------------------------------------------------------ overall
\* variant: weights that do not add up to 1
weights_unbalanced == [meta |-> 20, content |-> 35, links |-> 15, tech |-> 35]

\* weights = {'meta': 0.20, 'content': 0.35, 'links': 0.15, 'tech': 0.30}, in hundredths
weights == [meta |-> 20, content |-> 35, links |-> 15, tech |-> 30]

\* the weighted average; with weights in hundredths the result is in units
\* of 1 / (100 * ScoreUnit) percent
overall_score_of(meta_score, content_score, link_score, tech_score) ==
    meta_score * weights.meta + content_score * weights.content
    + link_score * weights.links + tech_score * weights.tech

\* the social score (lines 636-642), derived from meta_data
social_score_of(meta_data) ==
    Percentage(PointsIf(Truthy(meta_data["og:title"]) /\ Truthy(meta_data["og:description"])
                        /\ Truthy(meta_data["og:image"]), 3)
               + PointsIf(Truthy(meta_data["twitter:card"]) /\ Truthy(meta_data["twitter:title"])
                          /\ Truthy(meta_data["twitter:description"]), 2), 5)

\* ------------------------------------------------------------------ fetch
NoneDoc == <<Node("<None>", "", <<>>, <<>>)>>
NoError == "<None>"
NoScore == -1

HttpReply(status, content, url) ==
    [exc |-> "none", status |-> status, content |-> content, url |-> url]
Raised(exc) == [exc |-> exc, status |-> 0, content |-> NoneDoc, url |-> <<>>]

\* variant: raise_for_status() is left out, an error status is not an error
fetch_content_unchecked(url, reply, elapsed) ==
    IF reply.exc = "Timeout"
    THEN [html_content |-> NoneDoc, final_url |-> url, load_time |-> NoLoadTime,
          fetch_error |-> "Error: Request timed out after 15 seconds."]
    ELSE IF reply.exc = "RequestException"
    THEN [html_content |-> NoneDoc, final_url |-> url, load_time |-> NoLoadTime,
          fetch_error |-> "Error fetching URL"]
    ELSE IF reply.exc # "none"
    THEN [html_content |-> NoneDoc, final_url |-> url, load_time |-> NoLoadTime,
          fetch_error |-> "An unexpected error occurred during fetch"]
    ELSE [html_content |-> reply.content, final_url |-> reply.url, load_time |-> elapsed,
          fetch_error |-> NoError]

\* fetch_content(url) for a reply of the server and a measured load time:
\* (content, final url, load time, error)
fetch_content(url, reply, elapsed) ==
    IF reply.exc = "Timeout"
    THEN [html_content |-> NoneDoc, final_url |-> url, load_time |-> NoLoadTime,
          fetch_error |-> "Error: Request timed out after 15 seconds."]
    ELSE IF reply.exc = "RequestException" \/ (reply.exc = "none" /\ reply.status >= 400
                                               /\ reply.status < 600)
    THEN [html_content |-> NoneDoc, final_url |-> url, load_time |-> NoLoadTime,
          fetch_error |-> "Error fetching URL"]
    ELSE IF reply.exc # "none"
    THEN [html_content |-> NoneDoc, final_url |-> url, load_time |-> NoLoadTime,
          fetch_error |-> "An unexpected error occurred during fetch"]
    ELSE [html_content |-> reply.content, final_url |-> reply.url, load_time |-> elapsed,
          fetch_error |-> NoError]

\* ------------------------------------------------------------------ inputs
Text(w) == <<Run(w, 1)>>

HtmlTag(lang) == Node("html", "", IF lang = None THEN <<>> ELSE <<<<"lang", lang>>>>, <<>>)
BodyTag == Node("body", "html", <<>>, <<>>)
Title(text) == Node("title", "head", <<>>, text)
Meta(name, content) == Node("meta", "head", <<<<"name", <<name>>>>, <<"content", content>>>>, <<>>)
MetaProperty(property, content) ==
    Node("meta", "head", <<<<"property", <<property>>>>, <<"content", content>>>>, <<>>)
LinkTag(rel, href) == Node("link", "head", <<<<"rel", rel>>, <<"href", href>>>>, <<>>)
Anchor(within, href, text) == Node("a", within, <<<<"href", href>>>>, text)
Img(within, attrs) == Node("img", within, attrs, <<>>)
Para(within, text) == Node("p", within, <<>>, text)
Heading(tag, within, text) == Node(tag, within, <<>>, text)
LdJson(within, text) ==
    Node("script", within, <<<<"type", <<"application/ld+json">>>>>>, text)
Region(tag) == Node(tag, "body", <<>>, <<>>)

FullViewport == <<"width=device-width", ",", " ", "initial-scale=1">>

SiteUrl == MkUrl("https", "a.com", "/")

\* a complete page: all head signals, one H1, 350 words, structured data in the head
RichPage ==
    <<HtmlTag(<<"en">>), Title(<<Run("SEO", 1), Run(" ", 1), Run("guide", 1)>>),
      Meta("description", <<"All", " ", "about", " ", "SEO">>),
      Meta("robots", <<"index">>), Meta("author", <<"Hal">>),
      Meta("viewport", FullViewport),
      Node("meta", "head", <<<<"charset", <<"utf-8">>>>>>, <<>>),
      LinkTag(<<"canonical">>, <<"/canon">>), LinkTag(<<"icon">>, <<"/favicon.ico">>),
      Node("link", "head", <<<<"rel", <<"alternate">>>>, <<"hreflang", <<"fr">>>>,
                             <<"href", <<"/fr">>>>>>, <<>>),
      MetaProperty("og:title", <<"SEO">>), MetaProperty("og:description", <<"guide">>),
      MetaProperty("og:image", <<"/x">>),
      Meta("twitter:card", <<"summary">>), Meta("twitter:title", <<"SEO">>),
      Meta("twitter:description", <<"guide">>),
      LdJson("head", Text("{@type:Article}")),
      BodyTag, Heading("h1", "body", Text("SEO")),
      Para("body", <<Run("SEO", 200), Run("the", 100), Run("guide", 50)>>),
      Img("body", <<<<"src", <<"/x">>>>, <<"alt", <<"chart">>>>>>),
      Anchor("body", <<"/about">>, Text("About")),
      Anchor("body", MkUrl("https", "b.com", "/x"), Text("Partner"))>>

\* a page whose links, image and structured data lie in the regions of the
\* body that content extraction leaves out
RegionPage ==
    <<HtmlTag(None), Title(Text(" ")), Meta("viewport", <<"width=device-width">>),
      BodyTag, Region("nav"), Anchor("nav", <<"/about">>, Text("About")),
      Img("nav", <<<<"src", <<"/x">>>>>>),
      Heading("h1", "body", Text("Tips,")), Heading("h3", "body", Text("More")),
      Para("body", <<Run("The", 30), Run("!!!", 30)>>),
      LdJson("body", Text("{broken")),
      Anchor("body", <<"mailto", ":", "x@y.com">>, <<>>),
      Region("footer"), Anchor("footer", MkUrl("https", "b.com", "/x"), Text("Partner")),
      Region("aside"), Para("aside", <<Run("guide", 100)>>)>>

\* a fragment without html, head or body elements
BarePage == <<Title(<<>>), Anchor("", <<"#top">>, Text("Top")), Img("", <<>>)>>

PlainPage == <<HtmlTag(<<"en">>), BodyTag, Para("body", <<Run("guide", 60)>>)>>

EmptyPage == <<>>

Pages == {RichPage, RegionPage, BarePage, PlainPage, EmptyPage}

UrlInputs == {<<>>, <<"a.com">>, SiteUrl, MkUrl("http", "a.com", "/page"),
              MkUrl("https", "a.com", "/robots.txt"), MkUrl("https", "a.com", "/sitemap.xml")}

\* response.url: the requested URL, or the https one it redirects to
FinalUrls(url) == {url} \cup (IF urlparse(url).scheme = "http" THEN {SiteUrl} ELSE {})

FetchStatuses == {200, 300, 404, 500}

FetchReplies(url) ==
    {HttpReply(200, page, final) : page \in Pages, final \in FinalUrls(url)}
    \cup {HttpReply(status, EmptyPage, url) : status \in FetchStatuses \ {200}}
    \cup {Raised(exc) : exc \in {"Timeout", "RequestException", "Exception"}}

LoadTimes == {2000, 4000, 4001}

FleschResults == {[ok |-> TRUE, score |-> 60], [ok |-> TRUE, score |-> 30],
                  [ok |-> TRUE, score |-> 29], [ok |-> FALSE, score |-> 0]}

DeclaredUrl == MkUrl("https", "cdn.com", "/sm.xml")

\* robots.txt bodies, as sequences of lines
RobotsBodies ==
    {<<>>,
     <<<<"User-agent", ":", " ", "*">>, <<"Disallow", ":">>>>,
     <<<<"User-agent", ":", " ", "*">>, <<"Sitemap", ":", " ">> \o DeclaredUrl>>,
     <<<<" ", "SITEMAP", ":">> \o DeclaredUrl \o <<" ">>,
       <<"sitemap", ":", " ">> \o MkUrl("https", "a.com", "/sm.xml")>>,
     <<<<"sitemap", ":", " ">>, <<"Sitemap", ":", " ">> \o DeclaredUrl>>,
     <<<<"Sitemap", ":", " ">> \o MkUrl("https", "a.com", "/robots.txt")>>}

ProbeStatuses == {200, 404, 500}

RobotsReplies ==
    {Response(200, body) : body \in RobotsBodies}
    \cup {Response(status, <<>>) : status \in ProbeStatuses \ {200}}
    \cup {RequestException}

ProbeReplies == {Response(status, <<>>) : status \in ProbeStatuses} \cup {RequestException}

\* ------------------------------------------------------------------ state
VARIABLES
    pc,                     \* position of the run in the script
    url_input,              \* the URL typed into the form
    html_content, final_url, load_time, fetch_error,    \* fetch_content's result
    soup,                   \* the parsed document
    meta_data, meta_score,
    content_data, content_score,
    content_scoring,        \* locals of analyze_on_page_content when it returned
    link_data, link_score,
    tech_data, tech_points, tech_score,
    sitemap_urls_to_check, sitemap_index, sitemap_found,
    social_score, overall_score,
    messages,               \* what st.warning / st.error have shown
    requests,               \* the network requests issued so far, in order
    calls                   \* the analysis steps executed so far, in order

vars == <<pc, url_input, html_content, final_url, load_time, fetch_error, soup,
          meta_data, meta_score, content_data, content_score, content_scoring,
          link_data, link_score, tech_data, tech_points, tech_score, sitemap_urls_to_check, sitemap_index,
          sitemap_found, social_score, overall_score, messages, requests, calls>>

fetch_vars == <<html_content, final_url, load_time, fetch_error>>
meta_vars == <<meta_data, meta_score>>
content_vars == <<content_data, content_score, content_scoring>>
link_vars == <<link_data, link_score>>
tech_vars == <<tech_data, tech_points, tech_score, sitemap_urls_to_check, sitemap_index,
               sitemap_found>>
overall_vars == <<social_score, overall_score>>

content_data_init ==
    [headings |-> [t \in HeadingTags |-> <<>>], word_count |-> 0,
     readability_score |-> -1000, readability_desc |-> "Not calculated",
     top_keywords |-> <<>>,
     image_alt_analysis |-> [total |-> 0, with_alt |-> 0, missing_alt |-> 0, alt_tags |-> <<>>],
     text_content |-> <<>>]

content_scoring_init ==
    [has_h1 |-> FALSE, hierarchy_trace |-> <<>>, heading_hierarchy_ok |-> TRUE,
     heading_points |-> 0, image_points |-> 0]

link_data_init ==
    [internal |-> <<>>, external |-> <<>>, internal_count |-> 0, external_count |-> 0,
     anchor_texts |-> <<>>, links_all |-> <<>>]

FreshMeta == meta_data = meta_data_init /\ meta_score = NoScore
FreshContent ==
    /\ content_data = content_data_init /\ content_score = NoScore
    /\ content_scoring = content_scoring_init
FreshLinks == link_data = link_data_init /\ link_score = NoScore
FreshTech ==
    /\ tech_data = tech_data_init(NoLoadTime) /\ tech_points = 0 /\ tech_score = NoScore
    /\ sitemap_urls_to_check = <<>> /\ sitemap_index = 1 /\ sitemap_found = FALSE
FreshOverall == social_score = NoScore /\ overall_score = NoScore
FreshLogs == messages = <<>> /\ requests = <<>> /\ calls = <<>>

\* nothing fetched, parsed or analysed yet
Fresh ==
    /\ html_content = NoneDoc /\ final_url = <<>> /\ load_time = NoLoadTime
    /\ fetch_error = NoError
    /\ soup = NoneDoc
    /\ FreshMeta /\ FreshContent /\ FreshLinks /\ FreshTech /\ FreshOverall /\ FreshLogs

Init == pc = "form" /\ url_input \in UrlInputs /\ Fresh

\* "Analyze URL" is pressed (lines 594-599)
Submit ==
    /\ pc = "form"
    /\ IF url_input = <<>>
       THEN pc' = "rejected" /\ messages' = Append(messages, "Please enter a URL.")
       ELSE IF ~is_valid_url(url_input)
       THEN pc' = "rejected" /\ messages' = Append(messages, "Invalid URL format.")
       ELSE pc' = "fetch" /\ UNCHANGED messages
    /\ UNCHANGED <<url_input, fetch_vars, soup, meta_vars, content_vars, link_vars,
                   tech_vars, overall_vars, requests, calls>>

\* the page is fetched and parsed, or the run stops (lines 602-626)
Fetch ==
    /\ pc = "fetch"
    /\ \E reply \in FetchReplies(url_input), elapsed \in LoadTimes :
         LET r == fetch_content(url_input, reply, elapsed)
         IN  /\ requests' = Append(requests,
                    [method |-> "GET", url |-> url_input, target |-> "page",
                     result |-> IF reply.exc = "none" THEN reply.status ELSE 0])
             /\ html_content' = r.html_content
             /\ final_url' = r.final_url
             /\ load_time' = r.load_time
             /\ fetch_error' = r.fetch_error
             /\ IF r.fetch_error # NoError
                THEN /\ messages' = Append(messages, r.fetch_error)
                     /\ pc' = "stopped" /\ UNCHANGED soup
                ELSE IF r.html_content = NoneDoc
                THEN /\ messages' = Append(messages, "Could not retrieve content from the URL.")
                     /\ pc' = "stopped" /\ UNCHANGED soup
                ELSE /\ soup' = r.html_content
                     /\ pc' = "analyze_meta" /\ UNCHANGED messages
    /\ UNCHANGED calls
    /\ UNCHANGED <<url_input, meta_vars, content_vars, link_vars, tech_vars, overall_vars>>

\* meta_data, meta_score = analyze_meta_tags(soup, final_url)
MetaStep(from, to) ==
    /\ pc = from
    /\ LET r == analyze_meta_tags(soup, final_url)
       IN  meta_data' = r.meta_data /\ meta_score' = r.meta_score
    /\ calls' = Append(calls, "analyze_meta_tags")
    /\ pc' = to
    /\ UNCHANGED <<url_input, fetch_vars, soup, content_vars, link_vars, tech_vars,
                   overall_vars, messages, requests>>

\* content_data, content_score = analyze_on_page_content(soup)
ContentStep(from, to) ==
    /\ pc = from
    /\ \E flesch \in FleschResults :
         LET r == analyze_on_page_content(soup, flesch)
         IN  /\ content_data' = r.content_data
             /\ content_score' = r.content_score
             /\ content_scoring' = r.scoring
             /\ soup' = r.soup
             /\ messages' = IF r.content_data.readability_desc = "Calculation Error"
                            THEN Append(messages, "Could not calculate readability")
                            ELSE messages
    /\ calls' = Append(calls, "analyze_on_page_content")
    /\ pc' = to
    /\ UNCHANGED <<url_input, fetch_vars, meta_vars, link_vars, tech_vars, overall_vars,
                   requests>>

\* link_data, link_score = analyze_links(soup, final_url)
LinkStep(from, to) ==
    /\ pc = from
    /\ LET r == analyze_links(soup, final_url)
       IN  link_data' = r.link_data /\ link_score' = r.link_score
    /\ calls' = Append(calls, "analyze_links")
    /\ pc' = to
    /\ UNCHANGED <<url_input, fetch_vars, soup, meta_vars, content_vars, tech_vars,
                   overall_vars, messages, requests>>

AnalyzeMeta == MetaStep("analyze_meta", "analyze_content")
AnalyzeContent == ContentStep("analyze_content", "analyze_links")
AnalyzeLinks == LinkStep("analyze_links", "tech_robots")

\* what lines 653-657 report when an exception escapes the analysis: the error
\* and its traceback
AnalysisError == <<"An error occurred during analysis", "traceback">>

\* analyze_technical_seo up to the sitemap loop (lines 421-478)
TechRobots ==
    /\ pc = "tech_robots"
    /\ \E reply \in RobotsReplies :
         LET r == RobotsCheck(final_url, tech_data_init(load_time), reply)
         IN  /\ tech_data' = r.tech_data
             /\ tech_points' = r.points
             /\ sitemap_urls_to_check' = r.sitemap_urls_to_check
             /\ requests' = requests \o r.requests
             /\ pc' = IF r.raised THEN "stopped" ELSE "tech_sitemap"
             /\ messages' = IF r.raised THEN messages \o AnalysisError ELSE messages
    /\ sitemap_index' = 1
    /\ sitemap_found' = FALSE
    /\ calls' = Append(calls, "analyze_technical_seo")
    /\ UNCHANGED <<url_input, fetch_vars, soup, meta_vars, content_vars, link_vars,
                   tech_score, overall_vars>>

\* one iteration of the sitemap loop (lines 479-507)
TechSitemap ==
    /\ pc = "tech_sitemap"
    /\ sitemap_index <= Len(sitemap_urls_to_check)
    /\ \E head \in ProbeReplies, get \in ProbeReplies :
         LET sitemap_url == sitemap_urls_to_check[sitemap_index]
             r == SitemapProbe(sitemap_url, head, get)
         IN  /\ tech_data' = [tech_data EXCEPT !.sitemap_xml.url = sitemap_url,
                                                !.sitemap_xml.status = r.status]
             /\ sitemap_found' = r.found
             /\ tech_points' = tech_points + PointsIf(r.found, 5)
             /\ requests' = requests \o r.requests
             /\ pc' = IF r.raised THEN "stopped"
                      ELSE IF r.found \/ sitemap_index = Len(sitemap_urls_to_check)
                      THEN "tech_finish" ELSE "tech_sitemap"
             /\ messages' = IF r.raised THEN messages \o AnalysisError ELSE messages
    /\ sitemap_index' = sitemap_index + 1
    /\ UNCHANGED <<url_input, fetch_vars, soup, meta_vars, content_vars, link_vars,
                   tech_score, sitemap_urls_to_check, overall_vars, calls>>

\* the rest of analyze_technical_seo (lines 509-582)
TechFinish ==
    /\ pc = "tech_finish"
    /\ LET r == TechRest(soup, load_time, meta_data)
       IN  /\ tech_data' = [tech_data EXCEPT
                 !.sitemap_xml.status = SitemapFinalStatus(@, sitemap_found),
                 !.load_time_status = r.load_time_status,
                 !.mobile_friendly = r.mobile_friendly,
                 !.schema_markup = r.schema_markup]
           /\ tech_points' = tech_points + r.points
           /\ tech_score' = Percentage(tech_points + r.points, tech_max_points)
           /\ messages' = messages
                          \o [i \in 1..Len(SelectSeq(r.schema_markup.types,
                                                     LAMBDA t : t = "Error Parsing")) |->
                                "Found schema tag but could not parse its content."]
    /\ pc' = "aggregate"
    /\ UNCHANGED <<url_input, fetch_vars, soup, meta_vars, content_vars, link_vars,
                   sitemap_urls_to_check, sitemap_index, sitemap_found, overall_vars,
                   requests, calls>>

\* the social and overall scores (lines 635-651)
Aggregate ==
    /\ pc = "aggregate"
    /\ social_score' = social_score_of(meta_data)
    /\ overall_score' = overall_score_of(meta_score, content_score, link_score, tech_score)
    /\ calls' = Append(calls, "overall_score")
    /\ pc' = "display"
    /\ UNCHANGED <<url_input, fetch_vars, soup, meta_vars, content_vars, link_vars,
                   tech_vars, messages, requests>>

Next ==
    \/ Submit
    \/ Fetch
    \/ AnalyzeMeta
    \/ AnalyzeContent
    \/ AnalyzeLinks
    \/ TechRobots
    \/ TechSitemap
    \/ TechFinish
    \/ Aggregate

Spec == Init /\ [][Next]_vars

\* ------------------------------------------------------------------ the analyzers on their own
\* Each analyzer applied to inputs drawn from bounded families of documents.
MaxHeadings == 3
MaxImages == 10
MaxLinks == 6
MaxTerms == 11

TitleOpts == {<<>>, <<Title(Text(" "))>>, <<Title(Text("SEO"))>>}
DescriptionOpts ==
    {<<>>, <<Meta("description", <<" ">>)>>, <<Meta("description", <<"guide">>)>>}
RobotsMetaOpts == {<<>>, <<Meta("robots", <<"index">>)>>}
CanonicalOpts == {<<>>, <<LinkTag(<<"canonical">>, <<"/canon">>)>>}
OgOpts ==
    {<<MetaProperty("og:title", <<"SEO">>), MetaProperty("og:description", <<"guide">>),
       MetaProperty("og:image", <<"/x">>)>>,
     <<MetaProperty("og:title", <<"SEO">>), MetaProperty("og:description", <<" ">>),
       MetaProperty("og:image", <<"/x">>)>>}
TwitterOpts ==
    {<<Meta("twitter:card", <<"summary">>), Meta("twitter:title", <<"SEO">>)>>,
     <<Meta("twitter:card", <<"summary">>), Meta("twitter:title", <<"SEO">>),
       Meta("twitter:description", <<"guide">>)>>}
Viewports == {FullViewport, <<"width=device-width">>, <<"width=1024">>}
ViewportOpts == {<<>>} \cup {<<Meta("viewport", v)>> : v \in Viewports}
AuthorOpts == {<<>>, <<Meta("author", <<"Hal">>)>>}
CharsetOpts ==
    {<<>>, <<Node("meta", "head", <<<<"charset", <<"utf-8">>>>>>, <<>>)>>,
     <<Node("meta", "head", <<<<"http-equiv", <<"Content-Type">>>>,
                              <<"content", <<"text/html;", " ", "charset=", "utf-8">>>>>>, <<>>)>>}
HtmlOpts == {<<HtmlTag(None)>>, <<HtmlTag(<<"en">>)>>}
FaviconOpts ==
    {<<LinkTag(<<"apple-touch-icon">>, <<>>)>>,
     <<LinkTag(<<"apple-touch-icon">>, <<>>), LinkTag(<<"shortcut", "icon">>, <<"/favicon.ico">>)>>}
AlternateOpts ==
    {<<>>, <<Node("link", "head", <<<<"rel", <<"alternate">>>>, <<"hreflang", <<"fr">>>>,
                                    <<"href", <<"/fr">>>>>>, <<>>)>>}

\* the signals that earn no points on their own account, absent or present together
AnnotationOpts ==
    {<<r, c, a, alt>> \in RobotsMetaOpts \X CanonicalOpts \X AuthorOpts \X AlternateOpts :
        \/ r = <<>> /\ c = <<>> /\ a = <<>> /\ alt = <<>>
        \/ r # <<>> /\ c # <<>> /\ a # <<>> /\ alt # <<>>
        \/ r = <<>> /\ c # <<>> /\ a = <<>> /\ alt # <<>>}

\* documents with the combinations of the head signals
MetaDocs ==
    {html \o t \o d \o n[1] \o n[2] \o og \o tw \o v \o n[3] \o cs \o f \o n[4] :
        html \in HtmlOpts, t \in TitleOpts, d \in DescriptionOpts, n \in AnnotationOpts,
        og \in OgOpts, tw \in TwitterOpts, v \in ViewportOpts,
        cs \in CharsetOpts, f \in FaviconOpts}

HeadingChoices ==
    {Heading("h1", "body", Text("SEO")), Heading("h1", "body", Text(" ")),
     Heading("h2", "body", Text("guide")), Heading("h3", "body", Text("More"))}

RECURSIVE SeqsUpTo(_, _)
SeqsUpTo(S, n) ==
    IF n = 0 THEN {<<>>}
    ELSE SeqsUpTo(S, n - 1)
         \cup {Append(q, x) : q \in {p \in SeqsUpTo(S, n - 1) : Len(p) = n - 1}, x \in S}

BodyTexts ==
    {<<>>, <<Run("The", 1)>>, <<Run("guide", 50)>>, <<Run("guide", 51)>>,
     <<Run("SEO", 299)>>, <<Run("SEO", 200), Run("the", 100)>>}

\* with images that have alt text followed by without that lack it, all of
\* them in one container
Images(within, with, without) ==
    [i \in 1..(with + without) |->
        Img(within, IF i <= with THEN <<<<"src", <<"/x">>>>, <<"alt", <<"chart">>>>>>
                    ELSE IF i % 2 = 0 THEN <<<<"src", <<"/x">>>>, <<"alt", <<" ">>>>>>
                    ELSE <<<<"src", <<"/x">>>>>>)]

\* how many images have alt text, and how many lack it
ImageCounts ==
    {n \in (0..MaxImages) \X (0..MaxImages) : n[1] + n[2] <= MaxImages}

\* every sequence of headings before one paragraph
HeadingDocs ==
    {<<BodyTag>> \o hs \o <<Para("body", <<Run("guide", 51)>>)>> :
        hs \in SeqsUpTo(HeadingChoices, MaxHeadings)}

\* one heading, a paragraph and images, which lie in the body itself or in
\* its footer
BodyDocs ==
    {<<BodyTag, Heading("h1", "body", Text("SEO")), Para("body", text)>>
     \o (IF c = "body" THEN <<>> ELSE <<Region(c)>>) \o Images(c, n[1], n[2]) :
        text \in BodyTexts, n \in ImageCounts, c \in {"body", "footer"}}

\* words that clean_text leaves as they are and the filter keeps
Vocabulary ==
    <<"seo", "guide", "page", "site", "rank", "link", "meta", "title",
      "image", "score", "robots", "sitemap", "schema">>

\* how often the i-th of k terms occurs
TermCount(shape, i, k) ==
    CASE shape = "flat"    -> 1
      [] shape = "rising"  -> i
      [] shape = "falling" -> k + 1 - i
      [] shape = "paired"  -> (i + 1) \div 2
      [] shape = "skewed"  -> IF i = 1 THEN 5 ELSE 1

\* k terms, each in one run, and texts in which terms recur among words
\* that the filter drops
KeywordTexts ==
    {[i \in 1..k |-> Run(Vocabulary[i], TermCount(shape, i, k))] :
        k \in 0..MaxTerms, shape \in {"flat", "rising", "falling", "paired", "skewed"}}
    \cup {<<Run("The", 2), Run("AI", 3), Run("!!!", 1)>>,
          <<Run("seo", 1), Run("The", 4), Run("guide", 2), Run("SEO", 1), Run("of", 1),
            Run("page", 2), Run("Tips,", 3), Run("seo", 1), Run("tips", 1)>>,
          <<Run("seo", 6), Run("guide", 6), Run("page", 5), Run("site", 1), Run("rank", 1),
            Run("link", 1), Run("meta", 1), Run("title", 1), Run("image", 1),
            Run("score", 1)>>}

KeywordDocs == {<<BodyTag, Para("body", text)>> : text \in KeywordTexts}

ContentDocs == HeadingDocs \cup BodyDocs \cup KeywordDocs

AnchorWords == <<"About", "Partner", "More", "Top">>

\* hrefs that are no http(s) link, and a fragment of the page itself
OtherHrefs == <<<<"mailto", ":", "x@y.com">>, <<"tel", ":", "+123">>, <<"#top">>>>

\* internal links, then external ones, then the first other of OtherHrefs; the
\* first empties of them without anchor text, the others with texts drawn from
\* distinct words
LinkDoc(internal, external, other, distinct, empties) ==
    [i \in 1..(internal + external + other) |->
        Anchor("body",
               IF i <= internal THEN <<"/about">>
               ELSE IF i <= internal + external THEN MkUrl("https", "b.com", "/x")
               ELSE OtherHrefs[i - internal - external],
               IF i <= empties THEN <<>> ELSE Text(AnchorWords[((i - 1) % distinct) + 1]))]

LinkDocs ==
    {LinkDoc(k, m, o, d, e) :
        k \in 0..MaxLinks, m \in 0..MaxLinks, o \in 0..Len(OtherHrefs),
        d \in 1..Len(AnchorWords), e \in {0, 1, 3, MaxLinks}}

SchemaDocs ==
    {<<>>, <<LdJson("head", Text("{@type:Article}"))>>,
     <<LdJson("head", Text("{broken")), LdJson("head", Text("[{@type:Person},{@type:Organization}]"))>>,
     <<LdJson("head", Text("{broken"))>>,
     <<LdJson("head", <<>>), LdJson("body", Text("{name:x}")),
       LdJson("body", Text("{@type:Article}"))>>}

\* a document, its load time and the viewport the meta analysis recorded:
\* each varied with the others at their best
TechCases ==
    {<<d, 2000, FullViewport>> : d \in SchemaDocs}
    \cup {<<<<LdJson("head", Text("{@type:Article}"))>>, t, FullViewport>> : t \in LoadTimes \cup {NoLoadTime}}
    \cup {<<<<LdJson("head", Text("{@type:Article}"))>>, 2000, v>> : v \in Viewports \cup {None}}

\* the document is at hand, as after a successful fetch
Fetched(url) ==
    /\ url_input = url /\ final_url = url /\ html_content = soup
    /\ fetch_error = NoError /\ FreshLogs /\ FreshOverall

InitScores ==
    \/ /\ pc = "call_meta" /\ soup \in MetaDocs /\ load_time = 2000
       /\ Fetched(SiteUrl) /\ FreshMeta /\ FreshContent /\ FreshLinks /\ FreshTech
    \/ /\ pc = "call_content" /\ soup \in ContentDocs /\ load_time = 2000
       /\ Fetched(SiteUrl) /\ FreshMeta /\ FreshContent /\ FreshLinks /\ FreshTech
    \/ /\ pc = "call_links" /\ soup \in LinkDocs /\ load_time = 2000
       /\ Fetched(SiteUrl) /\ FreshMeta /\ FreshContent /\ FreshLinks /\ FreshTech
    \/ /\ pc = "tech_robots"
       /\ \E c \in TechCases :
             /\ soup = c[1] /\ load_time = c[2]
             /\ meta_data = [meta_data_init EXCEPT !["viewport"] = Strip(c[3])]
       /\ \E url \in {SiteUrl, MkUrl("http", "a.com", "/page")} : Fetched(url)
       /\ meta_score = NoScore /\ FreshContent /\ FreshLinks /\ FreshTech

CallMeta == MetaStep("call_meta", "returned")
CallContent == ContentStep("call_content", "returned")
CallLinks == LinkStep("call_links", "returned")

NextScores ==
    \/ CallMeta
    \/ CallContent
    \/ CallLinks
    \/ TechRobots
    \/ TechSitemap
    \/ TechFinish

SpecScores == InitScores /\ [][NextScores]_vars

\* the analysis block (lines 629-633) on documents that differ in their
\* viewport declaration only
ViewportCases ==
    {<<>>,
     <<Meta("viewport", FullViewport)>>,
     <<Meta("viewport", <<" ", "initial-scale=1.0", ",", "width=device-width", " ">>)>>,
     <<Meta("viewport", <<"width=device-width">>)>>,
     <<Meta("viewport", <<"width=device-width", ",", " ", "user-scalable=no">>)>>,
     <<Meta("viewport", <<"initial-scale=1">>)>>,
     <<Meta("viewport", <<"width=1024">>)>>,
     <<Meta("viewport", <<"WIDTH=DEVICE-WIDTH", ",", " ", "initial-scale=1">>)>>,
     <<Meta("viewport", <<" ">>)>>,
     <<Meta("viewport", <<>>)>>,
     <<Node("meta", "head", <<<<"name", <<"viewport">>>>>>, <<>>)>>,
     <<Meta("viewport", <<"width=device-width">>), Meta("viewport", FullViewport)>>}

ViewportDocs == {<<HtmlTag(None)>> \o v \o <<BodyTag>> : v \in ViewportCases}

InitViewport ==
    /\ pc = "analyze_meta" /\ soup \in ViewportDocs /\ load_time = 2000
    /\ Fetched(SiteUrl) /\ FreshMeta /\ FreshContent /\ FreshLinks /\ FreshTech

NextViewport ==
    \/ AnalyzeMeta
    \/ AnalyzeContent
    \/ AnalyzeLinks
    \/ TechRobots
    \/ TechSitemap
    \/ TechFinish

SpecViewport == InitViewport /\ [][NextViewport]_vars

\* the weighted average applied to every combination of category points
InitAggregate ==
    /\ pc = "aggregate"
    /\ soup = EmptyPage /\ load_time = 2000 /\ Fetched(SiteUrl)
    /\ meta_data = meta_data_init
    /\ content_data = content_data_init /\ content_scoring = content_scoring_init
    /\ link_data = link_data_init
    /\ tech_data = tech_data_init(2000) /\ tech_points \in 0..tech_max_points
    /\ sitemap_urls_to_check = <<>> /\ sitemap_index = 1 /\ sitemap_found = FALSE
    /\ meta_score \in {Percentage(p, meta_max_points) : p \in 0..meta_max_points}
    /\ content_score \in {Percentage(p, content_max_points) : p \in 0..content_max_points}
    /\ link_score \in {Percentage(p, links_max_points) : p \in 0..links_max_points}
    /\ tech_score = Percentage(tech_points, tech_max_points)

SpecAggregate == InitAggregate /\ [][Aggregate]_vars

\* ------------------------------------------------------------------ properties
Finished == pc \in {"aggregate", "display"}

Called(name) == \E i \in 1..Len(calls) : calls[i] = name

RequestsFor(target) == SelectSeq(requests, LAMBDA r : r.target = target)

SitemapRequests == RequestsFor("sitemap")

\* the status the robots.txt request came back with (0: it raised)
RobotsResult == RequestsFor("robots")[1].result

InRange(score) == score = NoScore \/ (0 <= score /\ score <= 100 * ScoreUnit)

\* C1: each of the four category scores lies between 0 and 100 percent, for
\* every document, load time and outcome of the probes; the points of the
\* technical analysis stay within 0..max_points while they accumulate.
C1_ScoresInRange ==
    /\ InRange(meta_score) /\ InRange(content_score)
    /\ InRange(link_score) /\ InRange(tech_score)
    /\ 0 <= tech_points /\ tech_points <= tech_max_points

C1_Witness == pc = "returned" /\ meta_score = 100 * ScoreUnit

\* C2: no analyzer modifies the document: once parsed, the tree the
\* analyzers work on stays the tree that was fetched.
C2_DocumentUnchanged == soup # NoneDoc => soup = html_content

\* C3: the analyzers are independent: the link data, the link score, the
\* structured-data verdict and the technical score of a run are those the
\* analyzers give on the document as it was parsed, whether or not content
\* analysis ran before them.
C3_AnalyzersIndependent ==
    pc = "display" =>
        /\ link_data = analyze_links(html_content, final_url).link_data
        /\ link_score = analyze_links(html_content, final_url).link_score
        /\ tech_data.schema_markup = schema_markup(html_content)
        /\ tech_score = Percentage(tech_points
                                   - PointsIf(tech_data.schema_markup.present, 3)
                                   + PointsIf(schema_markup(html_content).present, 3),
                                   tech_max_points)

\* the run ended with one error and nothing was analysed, probed or scored
NothingRan ==
    /\ pc = "stopped"
    /\ Len(messages) = 1
    /\ calls = <<>>
    /\ Len(requests) = 1
    /\ meta_score = NoScore /\ content_score = NoScore /\ link_score = NoScore
    /\ tech_score = NoScore /\ overall_score = NoScore

PageResult == requests[1].result

\* C4 (as claimed): if the fetch of the page fails -- it raised, or came
\* back with a status outside 200..299 -- the run ends with a single error
\* and no analyzer, probe or aggregation is executed.
C4_FetchFailureStops ==
    (requests # <<>> /\ (PageResult < 200 \/ PageResult > 299)) => NothingRan

\* C4 (amended): if the fetch of the page raised, or came back with a 4xx or
\* 5xx status, the run ends with a single error and no analyzer, probe or
\* aggregation is executed.
C4_FetchErrorStops ==
    (requests # <<>> /\ (PageResult = 0 \/ (PageResult >= 400 /\ PageResult < 600)))
        => NothingRan

C4_Witness == pc = "stopped" /\ requests # <<>> /\ PageResult = 500

\* the points of the checks that do not depend on the probes, read off the
\* verdicts of the result
VerdictPoints ==
    PointsIf(tech_data.https_status = "good", 3)
    + (IF tech_data.load_time_status = "good" THEN 7
       ELSE IF tech_data.load_time_status = "warning" THEN 3 ELSE 0)
    + (IF tech_data.mobile_friendly = "good" THEN 5
       ELSE IF tech_data.mobile_friendly = "warning" THEN 2 ELSE 0)
    + PointsIf(tech_data.schema_markup.present, 3)

SitemapAnswered200 ==
    \E i \in 1..Len(SitemapRequests) : SitemapRequests[i].result = 200

\* C5: whatever the robots.txt and sitemap requests come back with, technical
\* analysis is not aborted: it goes on to evaluate load time, viewport and
\* structured data and returns a score, in which a robots.txt check that did
\* not get a 200 and a sitemap check in which no request got a 200 count 0.
C5_ProbeFailuresTolerated ==
    /\ Called("analyze_technical_seo") => pc # "stopped"
    /\ Finished =>
        /\ tech_data.load_time_status \in {"good", "warning", "bad", "error"}
        /\ tech_data.mobile_friendly \in {"good", "warning", "bad"}
        /\ tech_score = Percentage(tech_points, tech_max_points)
        /\ tech_points = VerdictPoints + PointsIf(RobotsResult = 200, 4)
                         + PointsIf(SitemapAnswered200, 5)

C5_Witness ==
    /\ Finished
    /\ RobotsResult = 0
    /\ \A i \in 1..Len(SitemapRequests) : SitemapRequests[i].result \in {0, 500}
    /\ \E i \in 1..Len(SitemapRequests) : SitemapRequests[i].result = 0

PlainStatuses == {"Not Checked", "Found", "Not Found", "Not Found (Common Locations)"}

\* C6: when a probe ends in a fetch error or in a status other than 200 and
\* 404, the final status of its check is an error string, distinct from the
\* plain not-found statuses.
C6_ProbeErrorsReported ==
    Finished =>
        /\ RobotsResult \notin {200, 404} => tech_data.robots_txt.status \notin PlainStatuses
        /\ SitemapRequests[Len(SitemapRequests)].result \notin {200, 404}
              => tech_data.sitemap_xml.status \notin PlainStatuses

\* C7 (as claimed): no request, identified by its method and URL, is issued
\* twice in a run.
C7_NoRequestTwice ==
    \A i, j \in 1..Len(requests) :
        i < j => ~(requests[i].method = requests[j].method /\ requests[i].url = requests[j].url)

\* C7 (amended): no request is repeated for the same target: the page is
\* fetched with one GET, robots.txt with one GET, and a sitemap candidate with
\* one HEAD and at most one GET, also after a timeout, an exception or an
\* error status; a method and URL recur only for two different targets that
\* share the URL.
C7_OneRequestPerTarget ==
    /\ Len(RequestsFor("page")) <= 1
    /\ Len(RequestsFor("robots")) <= 1
    /\ \A i, j \in 1..Len(requests) :
        (i < j /\ requests[i].method = requests[j].method /\ requests[i].url = requests[j].url)
            => requests[i].target # requests[j].target

C7_Witness ==
    /\ Finished
    /\ RobotsResult = 0
    /\ Len(SitemapRequests) = 4
    /\ \A i \in 1..4 : SitemapRequests[i].result \in {0, 500}

\* a robots.txt line that starts with "sitemap:" in any letter case, and the
\* URL it declares
DeclaresSitemap(line) ==
    /\ Len(Strip(line)) >= 2
    /\ Strip(line)[1] \in {"sitemap", "Sitemap", "SITEMAP"}
    /\ Strip(line)[2] = ":"

DeclaredBy(line) == Strip(SubSeq(Strip(line), 3, Len(Strip(line))))

RobotsLines == IF tech_data.robots_txt.content = None THEN <<>> ELSE tech_data.robots_txt.content

HasDeclaration == \E i \in 1..Len(RobotsLines) : DeclaresSitemap(RobotsLines[i])

FirstDeclared ==
    DeclaredBy(RobotsLines[CHOOSE i \in 1..Len(RobotsLines) :
                    /\ DeclaresSitemap(RobotsLines[i])
                    /\ \A j \in 1..(i - 1) : ~DeclaresSitemap(RobotsLines[j])])

CommonLocations ==
    <<<<final_url[1], ":", "//", final_url[4], "/sitemap.xml">>,
      <<final_url[1], ":", "//", final_url[4], "/sitemap_index.xml">>>>

\* the candidates in the order the claim gives them
Candidates ==
    IF HasDeclaration /\ FirstDeclared # <<>> THEN <<FirstDeclared>> ELSE CommonLocations

CandidateIndex(url) == CHOOSE k \in 1..Len(Candidates) : Candidates[k] = url

SitemapLoopOver == pc \in {"tech_finish", "aggregate", "display"}

\* C8: the sitemap candidates are probed in order (the declared sitemap if
\* there is one, otherwise /sitemap.xml and then /sitemap_index.xml), each
\* with one HEAD; a GET follows exactly when the HEAD returned a status other
\* than 200 and 404; nothing is requested after the first 200, which is worth
\* 5 points once; without a 200 every candidate is probed and the check is
\* worth 0.
C8_SitemapProbeOrder ==
    Called("analyze_technical_seo") =>
      LET S == SitemapRequests
      IN  /\ \A i \in 1..Len(S) : \E k \in 1..Len(Candidates) : Candidates[k] = S[i].url
          /\ S # <<>> => S[1].url = Candidates[1]
          /\ \A i \in 1..Len(S) :
                /\ S[i].method = "HEAD" =>
                      i = 1 \/ CandidateIndex(S[i].url) = CandidateIndex(S[i - 1].url) + 1
                /\ S[i].method = "GET" =>
                      /\ i > 1 /\ S[i - 1].method = "HEAD" /\ S[i - 1].url = S[i].url
                      /\ S[i - 1].result \notin {0, 200, 404}
                /\ S[i].result = 200 => i = Len(S)
                /\ (S[i].method = "HEAD" /\ S[i].result \notin {0, 200, 404} /\ pc # "stopped")
                      => i < Len(S) /\ S[i + 1].method = "GET"
          /\ SitemapLoopOver =>
                /\ sitemap_found = SitemapAnswered200
                /\ ~SitemapAnswered200 =>
                      \A k \in 1..Len(Candidates) :
                          \E i \in 1..Len(S) : S[i].method = "HEAD" /\ S[i].url = Candidates[k]
          /\ pc = "tech_finish" =>
                tech_points = PointsIf(final_url[1] = "https", 3)
                              + PointsIf(RobotsResult = 200, 4)
                              + PointsIf(SitemapAnswered200, 5)

C8_Witness ==
    /\ pc = "tech_finish"
    /\ Len(SitemapRequests) = 3
    /\ SitemapRequests[1].result = 500
    /\ SitemapRequests[2].result = 404
    /\ SitemapRequests[3].result = 200
    /\ SitemapRequests[3].url = CommonLocations[2]

\* the declared sitemap was probed first and, when its probe got a 200, it is
\* reported as found in robots.txt
DeclaredFirst ==
    /\ SitemapRequests # <<>> => SitemapRequests[1].url = FirstDeclared
    /\ SitemapLoopOver =>
        /\ SitemapRequests # <<>>
        /\ SitemapRequests[Len(SitemapRequests)].result = 200 =>
              /\ tech_data.sitemap_xml.status = "Found"
              /\ tech_data.sitemap_xml.url = FirstDeclared
              /\ tech_data.sitemap_xml.found_in_robots

\* C9 (as claimed): if robots.txt returns 200 and has a line starting with
\* "sitemap:" (in any case), the URL of the first such line is the first
\* sitemap URL probed and, when that probe returns 200, the sitemap is
\* reported Found at that URL with found_in_robots = true.
C9_DeclaredSitemapFirst ==
    (Called("analyze_technical_seo") /\ pc # "stopped" /\ RobotsResult = 200 /\ HasDeclaration)
        => DeclaredFirst

\* C9 (amended): the same, for a first "sitemap:" line that gives a
\* non-empty URL.
C9_NonEmptyDeclaredSitemapFirst ==
    (Called("analyze_technical_seo") /\ pc # "stopped" /\ RobotsResult = 200 /\ HasDeclaration
     /\ FirstDeclared # <<>>)
        => DeclaredFirst

C9_Witness ==
    /\ pc = "tech_finish"
    /\ RobotsResult = 200
    /\ Len(RobotsLines) = 2 /\ DeclaresSitemap(RobotsLines[1]) /\ DeclaresSitemap(RobotsLines[2])
    /\ RobotsLines[1][2] = "SITEMAP"
    /\ SitemapRequests[Len(SitemapRequests)].result = 200
    /\ tech_data.sitemap_xml.url = DeclaredUrl
    /\ tech_data.sitemap_xml.found_in_robots

\* C10: the overall score is meta*0.20 + content*0.35 + links*0.15 +
\* technical*0.30, the weights add up to 1, four scores of 100 give 100,
\* four scores of 0 give 0, and the overall score lies between 0 and 100.
C10_WeightedOverall ==
    /\ weights.meta + weights.content + weights.links + weights.tech = 100
    /\ pc = "display" =>
        /\ 20 * overall_score
             = 100 * (4 * meta_score + 7 * content_score + 3 * link_score + 6 * tech_score)
        /\ 0 <= overall_score /\ overall_score <= 100 * 100 * ScoreUnit
        /\ (meta_score = 100 * ScoreUnit /\ content_score = 100 * ScoreUnit
            /\ link_score = 100 * ScoreUnit /\ tech_score = 100 * ScoreUnit)
              => overall_score = 100 * 100 * ScoreUnit
        /\ (meta_score = 0 /\ content_score = 0 /\ link_score = 0 /\ tech_score = 0)
              => overall_score = 0

C10_Witness == pc = "display" /\ overall_score = 100 * 100 * ScoreUnit

\* the headings of the document that are not skipped (their text is not
\* blank), in document order
CountedHeadings ==
    SelectSeq(html_content, LAMBDA n : n.tag \in HeadingTags /\ GetTextStrip(n) # <<>>)

CountedTags == [k \in 1..Len(CountedHeadings) |-> CountedHeadings[k].tag]

LevelOf(tag) == CHOOSE k \in 1..6 : <<"h1", "h2", "h3", "h4", "h5", "h6">>[k] = tag

\* the j-th counted heading lies more than one level below its predecessor
JumpAt(j) == j > 1 /\ LevelOf(CountedTags[j]) > LevelOf(CountedTags[j - 1]) + 1

H1Count == Cardinality({k \in 1..Len(CountedTags) : CountedTags[k] = "h1"})

\* C11: over the non-empty headings in document order the hierarchy flag is
\* valid after a heading exactly when no heading up to it lies more than one
\* level below its predecessor, so it turns invalid at the first such heading
\* and stays invalid; upward jumps and empty headings do not invalidate it; at
\* scoring it is invalid also when there is more than one H1.  [h1,h2,h3] is
\* valid, [h1,h3] is invalid, [h1,h2,h1] has two H1 and is invalid.
C11_HierarchyFlag ==
    Called("analyze_on_page_content") =>
        LET T == content_scoring.hierarchy_trace
        IN  /\ Len(T) = Len(CountedTags)
            /\ \A k \in 1..Len(T) : T[k] = ~(\E j \in 1..k : JumpAt(j))
            /\ \A k \in 1..(Len(T) - 1) : ~T[k] => ~T[k + 1]
            /\ content_scoring.heading_hierarchy_ok
                  = (~(\E j \in 1..Len(CountedTags) : JumpAt(j)) /\ H1Count <= 1)
            /\ CountedTags = <<"h1", "h2", "h3">> => content_scoring.heading_hierarchy_ok
            /\ CountedTags = <<"h1", "h3">> => ~content_scoring.heading_hierarchy_ok
            /\ CountedTags = <<"h1", "h2", "h1">> =>
                  /\ Len(content_data.headings["h1"]) = 2
                  /\ ~content_scoring.heading_hierarchy_ok

C11_Witness ==
    /\ pc = "returned" /\ Called("analyze_on_page_content")
    /\ CountedTags = <<"h1", "h3", "h2">>
    /\ content_scoring.hierarchy_trace = <<TRUE, FALSE, FALSE>>

\* C12: the heading points depend on (hasH1, h1Count, hierarchy flag) only:
\* 0 without a non-empty H1, whatever other headings there are; 8 with one H1
\* and a valid hierarchy; 6 with one H1 and an invalid hierarchy; 4 with more
\* than one H1.
C12_HeadingPoints ==
    Called("analyze_on_page_content") =>
        /\ content_scoring.has_h1 = (H1Count > 0)
        /\ Len(content_data.headings["h1"]) = H1Count
        /\ content_scoring.heading_points =
              (IF H1Count = 0 THEN 0
               ELSE IF H1Count > 1 THEN 4
               ELSE IF \E j \in 1..Len(CountedTags) : JumpAt(j) THEN 6 ELSE 8)

C12_Witness ==
    /\ pc = "returned" /\ Called("analyze_on_page_content")
    /\ CountedTags = <<"h1", "h2", "h1">>
    /\ content_scoring.heading_points = 4

\* the anchors with an href of the document handed to analyze_links
HrefAnchors == SelectSeq(soup, LAMBDA n : n.tag = "a" /\ HasAttr(n, "href"))

SchemeOf(url) == IF Len(url) >= 2 /\ url[2] = ":" THEN url[1] ELSE ""

DomainOf(url) == IF Len(url) >= 4 /\ url[2] = ":" /\ url[3] = "//" THEN url[4] ELSE ""

\* the classification the claim gives a resolved URL
ClassOf(url) ==
    IF SchemeOf(url) \in {"http", "https"}
    THEN (IF DomainOf(url) = DomainOf(final_url) THEN "internal" ELSE "external")
    ELSE "other"

\* the resolved URLs of the links of one classification, in document order
UrlsOfType(type) ==
    LET L == SelectSeq(link_data.links_all, LAMBDA l : l.type = type)
    IN  [i \in 1..Len(L) |-> L[i].href]

C14_FragmentOnlyIsOther ==
    Called("analyze_links") =>
        /\ Len(link_data.links_all) = Len(HrefAnchors)
        /\ \A i \in 1..Len(HrefAnchors) :
              Get(HrefAnchors[i], "href") = <<"#top">> => link_data.links_all[i].type = "other"
        /\ link_data.internal_count + link_data.external_count
              = Cardinality({i \in 1..Len(HrefAnchors) :
                    /\ Get(HrefAnchors[i], "href") # <<"#top">>
                    /\ link_data.links_all[i].type # "other"})

\* an anchor the analysis classifies other
IsOtherAnchor(n) ==
    /\ n.tag = "a" /\ HasAttr(n, "href")
    /\ SchemeOf(Get(n, "href")) \in {"mailto", "tel"}

\* C15: the links classified other are no input of the score: the link score
\* of a document is the score of the document without those links.
C15_OtherLinksNotScored ==
    Called("analyze_links") =>
        link_score
          = analyze_links(SelectSeq(soup, LAMBDA n : ~IsOtherAnchor(n)), final_url).link_score

\* the link points behind the percentage
LinkPointsAwarded == CHOOSE p \in 0..links_max_points : link_score = Percentage(p, links_max_points)

\* C16: the link points are the sum of three independent terms: 5 for at
\* least one http(s) link; 5 for internal and external links with more than 5
\* http(s) links in total; 5 for more than 3 distinct anchor texts with empty
\* anchors below half of the total, else 2 for more than 1 distinct anchor
\* text.
C16_LinkPointsSum ==
    Called("analyze_links") =>
        LET total    == link_data.internal_count + link_data.external_count
            distinct == Len(link_data.anchor_texts)
            empties  == Cardinality({i \in 1..Len(HrefAnchors) :
                                        GetTextStrip(HrefAnchors[i]) = <<>>})
        IN  LinkPointsAwarded
              = PointsIf(total > 0, 5)
                + PointsIf(link_data.internal_count > 0 /\ link_data.external_count > 0
                           /\ total > 5, 5)
                + (IF distinct > 3 /\ 2 * empties < total THEN 5
                   ELSE IF distinct > 1 THEN 2 ELSE 0)

\* the img elements of the document handed to analyze_on_page_content
DocImages == SelectSeq(html_content, LAMBDA n : n.tag = "img")

\* those of them with an alt text that is not blank
DocImagesWithAlt ==
    SelectSeq(DocImages, LAMBDA n : HasAttr(n, "alt") /\ Strip(Get(n, "alt")) # <<>>)

\* C17: the image alt analysis covers every img element of the document,
\* wherever it lies: total is the number of img elements, there is one detail
\* record per img, and with_alt + missing_alt = total.
C17_EveryImageCovered ==
    Called("analyze_on_page_content") =>
        LET a == content_data.image_alt_analysis
        IN  /\ a.total = Len(DocImages)
            /\ Len(a.alt_tags) = Len(DocImages)
            /\ a.with_alt + a.missing_alt = a.total

\* C18: the image alt points are 4 for a document without images, otherwise
\* 4 when at least 90% of its images have a non-blank alt text, 2 when at
\* least 50% have, and 0 below that.
C18_ImageAltPoints ==
    Called("analyze_on_page_content") =>
        content_scoring.image_points =
            (IF Len(DocImages) = 0 THEN 4
             ELSE IF 100 * Len(DocImagesWithAlt) >= 90 * Len(DocImages) THEN 4
             ELSE IF 100 * Len(DocImagesWithAlt) >= 50 * Len(DocImages) THEN 2
             ELSE 0)

\* the content of the viewport declaration of the document: that of its first
\* meta element named viewport (None without one, or without a content)
DeclaredViewport ==
    LET tags == SelectSeq(html_content, LAMBDA n :
                    n.tag = "meta" /\ Get(n, "name") = <<"viewport">>)
    IN  IF tags = <<>> THEN None ELSE Get(tags[1], "content")

HasDeviceWidth == \E i \in 1..Len(DeclaredViewport) : DeclaredViewport[i] = "width=device-width"

HasInitialScale ==
    \E i \in 1..Len(DeclaredViewport) : DeclaredViewport[i] \in {"initial-scale=1", "initial-scale=1.0"}

\* the points Meta gave: the documents of ViewportDocs have no other signal
\* that earns points
MetaViewportAwarded ==
    CHOOSE p \in 0..meta_max_points : meta_score = Percentage(p, meta_max_points)

\* the points Technical gave besides HTTPS, robots.txt, sitemap and load time
TechViewportAwarded ==
    tech_points - 3 - PointsIf(RobotsResult = 200, 4) - PointsIf(SitemapAnswered200, 5) - 7

\* C19: Meta and Technical score the viewport of a document alike: with both
\* width=device-width and initial-scale=1 Meta gives 3 and Technical 5 (good),
\* with width=device-width alone 1 and 2 (warning), and without a viewport or
\* with another configuration 0 and 0 (bad).
C19_ViewportConsistent ==
    pc = "aggregate" =>
        IF HasDeviceWidth /\ HasInitialScale
        THEN MetaViewportAwarded = 3 /\ TechViewportAwarded = 5
             /\ tech_data.mobile_friendly = "good"
        ELSE IF HasDeviceWidth
        THEN MetaViewportAwarded = 1 /\ TechViewportAwarded = 2
             /\ tech_data.mobile_friendly = "warning"
        ELSE MetaViewportAwarded = 0 /\ TechViewportAwarded = 0
             /\ tech_data.mobile_friendly = "bad"

C19_Witness ==
    /\ pc = "aggregate"
    /\ DeclaredViewport = <<"width=device-width", ",", " ", "user-scalable=no">>
    /\ MetaViewportAwarded = 1 /\ TechViewportAwarded = 2

\* the ld+json script elements of the document handed to analyze_technical_seo
SchemaBlocks ==
    SelectSeq(soup, LAMBDA n : n.tag = "script" /\ Get(n, "type") = <<"application/ld+json">>)

\* a block whose content is no JSON text
Unparsable(block) == block.text = <<>> \/ block.text = Text("{broken")

CountIn(seq, S) == Cardinality({i \in 1..Len(seq) : seq[i] \in S})

\* the points Technical gave besides HTTPS, robots.txt, sitemap, load time
\* and viewport
SchemaPointsAwarded ==
    tech_points
    - PointsIf(final_url[1] = "https", 3)
    - PointsIf(RobotsResult = 200, 4) - PointsIf(SitemapAnswered200, 5)
    - (IF tech_data.load_time_status = "good" THEN 7
       ELSE IF tech_data.load_time_status = "warning" THEN 3 ELSE 0)
    - (IF tech_data.mobile_friendly = "good" THEN 5
       ELSE IF tech_data.mobile_friendly = "warning" THEN 2 ELSE 0)

\* C20: Technical gives 3 points, once, when the document has at least one
\* ld+json script element, whether its content parses or not; each block that
\* does not parse leaves an error marker in the types list, the analysis goes
\* on to its end, and the types of the blocks after it are recorded.
C20_StructuredData ==
    /\ (Called("analyze_technical_seo") /\ SchemaBlocks # <<>>) => pc # "stopped"
    /\ pc = "aggregate" =>
        LET types == tech_data.schema_markup.types
        IN  /\ tech_data.schema_markup.present = (SchemaBlocks # <<>>)
            /\ SchemaPointsAwarded = (IF SchemaBlocks # <<>> THEN 3 ELSE 0)
            /\ tech_score = Percentage(tech_points, tech_max_points)
            /\ CountIn(types, {"Error Parsing", "Error Processing"})
                  = Cardinality({i \in 1..Len(SchemaBlocks) : Unparsable(SchemaBlocks[i])})
            /\ \A i \in 1..Len(SchemaBlocks) :
                  /\ SchemaBlocks[i].text = Text("{@type:Article}") => CountIn(types, {"Article"}) > 0
                  /\ SchemaBlocks[i].text = Text("[{@type:Person},{@type:Organization}]") =>
                        CountIn(types, {"Person"}) > 0 /\ CountIn(types, {"Organization"}) > 0

C20_Witness ==
    /\ pc = "aggregate"
    /\ Len(SchemaBlocks) = 2 /\ Unparsable(SchemaBlocks[1])
    /\ tech_data.schema_markup.types = <<"Error Parsing", "Person", "Organization">>
    /\ SchemaPointsAwarded = 3

\* the filtered token sequence of the text that was analysed, as runs
Filtered == MeaningfulWords(content_data.text_content)

Terms == {Filtered[i].w : i \in 1..Len(Filtered)}

Occurrences(w) == WordCount(SelectSeq(Filtered, LAMBDA r : r.w = w))

FirstAt(w) == Min({i \in 1..Len(Filtered) : Filtered[i].w = w})

\* a ranks before b: it is more frequent, or as frequent and met earlier
RanksBefore(a, b) ==
    \/ Occurrences(a) > Occurrences(b)
    \/ (Occurrences(a) = Occurrences(b) /\ FirstAt(a) < FirstAt(b))

Reported == content_data.top_keywords

RECURSIVE SumOf(_, _)
SumOf(f, n) == IF n = 0 THEN 0 ELSE f[n] + SumOf(f, n - 1)

\* the reported terms are the first 10 of the ranking, or all of them, each
\* with its count
RankingHolds ==
    /\ Len(Reported) = Min({10, Cardinality(Terms)})
    /\ \A i \in 1..Len(Reported) :
          /\ Reported[i].word \in Terms
          /\ Reported[i].count = Occurrences(Reported[i].word)
    /\ \A i, j \in 1..Len(Reported) :
          i < j => RanksBefore(Reported[i].word, Reported[j].word)
    /\ \A w \in Terms \ {Reported[i].word : i \in 1..Len(Reported)} :
          \A i \in 1..Len(Reported) : RanksBefore(Reported[i].word, w)

\* each density is the float of 100 * count / total and lies in [0, 100]
\* (density_err counts units of 2^-(52 + density_exp), of which 2^31 are
\* less than one unit of density_num)
DensitiesHold ==
    \A i \in 1..Len(Reported) :
        LET d == Reported[i]
        IN  /\ d.density_num = 100 * d.count
            /\ d.density_den = WordCount(Filtered)
            /\ d.density_num > 0 \/ (d.density_num = 0 /\ d.density_err >= 0)
            /\ d.density_num < 100 * d.density_den
               \/ (d.density_num = 100 * d.density_den /\ d.density_err <= 0)

\* the sum of the quotients 100 * count / total, times total
QuotientSum == SumOf([i \in 1..Len(Reported) |-> Reported[i].density_num], Len(Reported))

MaxExp == CHOOSE k \in {Reported[i].density_exp : i \in 1..Len(Reported)} :
              \A i \in 1..Len(Reported) : Reported[i].density_exp <= k

\* what the roundings add to the sum of the densities, in units of
\* 2^-(52 + MaxExp) / total
RoundingSum ==
    SumOf([i \in 1..Len(Reported) |->
              Reported[i].density_err * 2^(MaxExp - Reported[i].density_exp)],
          Len(Reported))

\* the densities, as floats, sum to at most 100
FloatSumAtMost100 ==
    Reported # <<>> =>
        \/ QuotientSum < 100 * WordCount(Filtered)
        \/ (QuotientSum = 100 * WordCount(Filtered) /\ RoundingSum <= 0)

\* C21: the reported terms are ordered by count descending with ties broken
\* by first occurrence among the filtered tokens; at most 10 terms are
\* reported and, when fewer distinct terms exist, all of them; none when there
\* are no filtered tokens; each density is the float of 100 * count / total
\* and lies in [0, 100]; the quotients 100 * count / total sum to at most 100,
\* and the floats reported for them exceed 100 in sum by less than 2^-40.
C21_KeywordRanking ==
    Called("analyze_on_page_content") =>
        /\ RankingHolds
        /\ DensitiesHold
        /\ (Filtered = <<>> => Reported = <<>>)
        /\ Reported # <<>> =>
              /\ QuotientSum <= 100 * WordCount(Filtered)
              /\ RoundingSum < WordCount(Filtered) * 2^(12 + MaxExp)

\* more than ten distinct terms, some of equal counts: ten are reported, the
\* more frequent first and the earlier of each pair before the later
C21_Witness ==
    /\ pc = "returned" /\ Called("analyze_on_page_content")
    /\ Cardinality(Terms) = MaxTerms
    /\ Len(Reported) = 10
    /\ \E i \in 1..9 : Reported[i].count = Reported[i + 1].count
    /\ Reported[1].count > Reported[10].count

\* C21 as stated: the same ranking, and densities that sum to at most 100
C21_DensitiesSumWithin100 ==
    Called("analyze_on_page_content") =>
        /\ RankingHolds
        /\ DensitiesHold
        /\ FloatSumAtMost100

\* the points analyze_meta_tags gave in all
MetaPointsAwarded ==
    CHOOSE p \in 0..meta_max_points : meta_score = Percentage(p, meta_max_points)

\* those of them that the recorded MetaData accounts for, title and
\* description apart
OtherMetaPoints ==
    PointsIf(meta_data["robots"] # None, 1)
    + PointsIf(meta_data["canonical"] # None, 3)
    + PointsIf(Truthy(meta_data["og:title"]) /\ Truthy(meta_data["og:description"])
               /\ Truthy(meta_data["og:image"]), 3)
    + PointsIf(Truthy(meta_data["twitter:card"]) /\ Truthy(meta_data["twitter:title"])
               /\ Truthy(meta_data["twitter:description"]), 2)
    + MetaViewportPoints(meta_data["viewport"])
    + PointsIf(meta_data["author"] # None, 1)
    + PointsIf(meta_data["charset"] # None, 1)
    + PointsIf(meta_data["language"] # None, 1)
    + PointsIf(Truthy(meta_data["favicon"]), 1)
    + PointsIf(meta_data["alternate"] # <<>>, 3)

\* 5 for the title and 4 for the description make up the rest
TitleAwarded == MetaPointsAwarded - OtherMetaPoints \in {5, 9}

DescriptionAwarded == MetaPointsAwarded - OtherMetaPoints \in {4, 9}

\* the text of the first title element and the content of the first
\* description of the document (None when there is none)
DocTitle ==
    LET tags == SelectSeq(html_content, LAMBDA n : n.tag = "title")
    IN  IF tags = <<>> THEN None ELSE TagString(tags[1])

DocDescription ==
    LET tags == SelectSeq(html_content, LAMBDA n :
                    n.tag = "meta" /\ Get(n, "name") = <<"description">>)
    IN  IF tags = <<>> THEN None ELSE Get(tags[1], "content")

OnlyWhitespace(s) == s # None /\ s # <<>> /\ Strip(s) = <<>>

NonEmptyString(s) == s # None /\ s # <<>>

\* C22: the 5 title points and the 4 description points are awarded exactly
\* when the title (description) is present and not empty: with the points the
\* MetaData field is a non-empty string, and a title or description of
\* whitespace only earns none.
C22_TitleDescriptionPoints ==
    Called("analyze_meta_tags") =>
        /\ TitleAwarded => NonEmptyString(meta_data["title"])
        /\ DescriptionAwarded => NonEmptyString(meta_data["description"])
        /\ OnlyWhitespace(DocTitle) => ~TitleAwarded
        /\ OnlyWhitespace(DocDescription) => ~DescriptionAwarded
        /\ (DocTitle # None /\ Strip(DocTitle) # <<>>) => TitleAwarded
        /\ (DocDescription # None /\ Strip(DocDescription) # <<>>) => DescriptionAwarded

\* the words in the paragraphs of the document
ParagraphWords ==
    WordCount(BodyText(SelectSeq(html_content, LAMBDA n : n.tag = "p")))

\* a finished run on a page with a single H1 in a valid hierarchy, a body of
\* 350 words, the Open Graph and Twitter tags, the https scheme, a viewport
\* with device width and initial scale, a robots.txt and a sitemap that were
\* found, and one ld+json script
ScenarioRun ==
    /\ pc = "display"
    /\ H1Count = 1 /\ content_scoring.heading_hierarchy_ok
    /\ ParagraphWords = 350
    /\ \A k \in {"og:title", "og:description", "og:image",
                 "twitter:card", "twitter:title", "twitter:description"} :
          Truthy(meta_data[k])
    /\ final_url[1] = "https"
    /\ HasDeviceWidth /\ HasInitialScale
    /\ RobotsResult = 200 /\ SitemapAnswered200
    /\ Len(SelectSeq(html_content, LAMBDA n :
              n.tag = "script" /\ Get(n, "type") = <<"application/ld+json">>)) = 1

ScenarioScores ==
    /\ meta_score > 85 * ScoreUnit
    /\ tech_score > 85 * ScoreUnit
    /\ overall_score > 75 * 100 * ScoreUnit

ContentPointsAwarded ==
    CHOOSE p \in 0..content_max_points : content_score = Percentage(p, content_max_points)

\* every award of the content analysis is at its maximum: one H1 in a valid
\* hierarchy, at least MIN_CONTENT_LENGTH_WORDS words, a good readability,
\* keywords found, and the full image-alt award
EveryContentAwardAtMaximum ==
    /\ content_scoring.heading_points = 8
    /\ content_data.word_count >= MIN_CONTENT_LENGTH_WORDS
    /\ content_data.readability_desc = "Good"
    /\ content_data.top_keywords # <<>>
    /\ content_scoring.image_points = 4

\* C24: the declared maximum of the Content category is reached: a document
\* that earns the maximum of the heading, word-count, readability, keyword
\* and image-alt awards has accumulated max_points = 30 points, a percentage
\* of 100.
C24_ContentMaximumReached ==
    (Called("analyze_on_page_content") /\ EveryContentAwardAtMaximum)
        => /\ ContentPointsAwarded = content_max_points
           /\ content_score = 100 * ScoreUnit

\* analyze_technical_seo has returned its TechnicalData
TechnicalReturned == Called("analyze_technical_seo") /\ pc \in {"aggregate", "display"}

\* the sitemap was looked for at the common locations
FallbackProbed ==
    \E i \in 1..Len(SitemapRequests) :
        \E k \in 1..Len(CommonLocations) :
            /\ SitemapRequests[i].url = CommonLocations[k]
            /\ ~(HasDeclaration /\ FirstDeclared = CommonLocations[k])

\* C25: in the TechnicalData that analyze_technical_seo returns,
\* found_in_robots = true implies that sitemap_xml.url is the URL declared by
\* the sitemap directive of robots.txt and that no other sitemap URL was
\* probed; it is never true when the sitemap was looked for at /sitemap.xml
\* or /sitemap_index.xml, a directive with an empty value included.
C25_FoundInRobotsMeansDeclared ==
    (TechnicalReturned /\ tech_data.sitemap_xml.found_in_robots) =>
        /\ HasDeclaration
        /\ tech_data.sitemap_xml.url = FirstDeclared
        /\ \A i \in 1..Len(SitemapRequests) : SitemapRequests[i].url = FirstDeclared
        /\ ~FallbackProbed

====
